---- MODULE Spec2Model ----
(***************************************************************************)
(* Statement extraction engine of ALabs-coder/aide: the three bank parsers *)
(* (APGVBExtractor, CanaraBankExtractor, UnionBankExtractor), their        *)
(* extract_complete_statement entry point and the financial summary.       *)
(*                                                                         *)
(* A document is the text the PDF library yields: a sequence of lines,     *)
(* page ends marked by a "pb" item.  A line is what the parsers' regular   *)
(* expressions can see of it: its kind (header keyword, transaction        *)
(* anchor, "Chq:" marker, ...), the anchor's date and serial number, a     *)
(* "/DR/" marker, and its numeric tokens in order, each with the tag that  *)
(* follows it.  Amounts are whole rupees.                                  *)
(***************************************************************************)
EXTENDS Integers, Sequences, FiniteSets, TLC

VARIABLES
    bank,       \* the bank identifier whose parser instance is used
    doc,        \* the document handed to extract_complete_statement
    encrypted,  \* pdf_reader.is_encrypted
    password,   \* the password argument (PyNone when absent)
    pc,         \* position inside extract_complete_statement
    calls,      \* number of calls started on this instance
    decrypted,  \* the reader of the current call has been decrypted
    attempts,   \* passwords handed to pdf_reader.decrypt in the current call
    page_idx,   \* enumerate() index (1-based) of the page to process next
    all_transactions,   \* local list of _extract_all_transactions
    transaction_counter,\* local counter of APGVB's _extract_all_transactions
    inst,       \* the parser instance: self.statement_metadata, ...
    start_prev, \* self._previous_balance as the transaction pass began
    results,    \* what each finished call returned or raised
    enhanced,   \* the enhanced argument of extract_bank_statement_data
    engine_results, \* what extract_bank_statement_data returned or raised
    store,          \* the bank configuration table, per bank identifier
    cache,          \* BankConfigService._cache
    cache_timestamp,\* BankConfigService._cache_timestamp
    lru,            \* the lru_cache that wraps get_bank_config
    extractor_cache,\* BankConfigService._extractor_cache
    threads,        \* per thread: the registry call it is in and its locals
    ops,            \* number of registry calls started so far
    registry_log,   \* the registry calls that returned or raised
    workers,        \* per thread: its extract_complete_statement call on the
                    \* instance the registry caches for `bank`
    pdf_file,       \* the file handed to PDFValidator.validate
    validator_password, \* the password argument of PDFValidator.validate
    validator_pc,   \* position inside PDFValidator.validate
    checks,         \* the checks validate has applied, in order
    validation_result,  \* the ValidationResult validate returned
    jobs_table,     \* the status attribute of each job's item in the jobs table
    queue,          \* the processing queue: the jobs with a message in flight
    uploader,       \* per job: position of its handle_upload invocation
    processor,      \* per job: the process_message invocation for its message
    s3_results,     \* the jobs whose results object is stored
    status_writes   \* per job: the status writes made to its item, in order

parser_vars == <<bank, doc, encrypted, password, pc, calls, decrypted, attempts,
                 page_idx, all_transactions, transaction_counter, inst, start_prev,
                 results, enhanced, engine_results>>

registry_vars == <<store, cache, cache_timestamp, lru, extractor_cache, threads,
                   ops, registry_log>>

validator_vars == <<pdf_file, validator_password, validator_pc, checks,
                    validation_result>>

job_vars == <<jobs_table, queue, uploader, processor, s3_results, status_writes>>

other_than_parser == <<registry_vars, workers, validator_vars, job_vars>>

other_than_registry == <<parser_vars, workers, validator_vars, job_vars>>

other_than_validator == <<parser_vars, registry_vars, workers, job_vars>>

other_than_jobs == <<parser_vars, registry_vars, workers, validator_vars>>

\* What concurrent calls on one instance leave alone.
other_than_workers ==
    <<doc, encrypted, password, pc, calls, decrypted, attempts, page_idx,
      all_transactions, transaction_counter, start_prev, results, enhanced,
      engine_results, registry_vars, validator_vars, job_vars>>

vars == <<parser_vars, registry_vars, workers, validator_vars, job_vars>>

(***************************************************************************)
(* Bounds of the model.                                                    *)
(***************************************************************************)
MaxDocLen == 4
MaxCalls == 2

(***************************************************************************)
(* Python values.                                                          *)
(***************************************************************************)
PyNone == "<None>"
EmptyDict == [k \in {} |-> 0]

\* A Python string holding an amount: "" | decimal text of the document
\* ("500.00") | str(float) ("500.0") | text with a tag ("500.00 (Dr)").
EmptyStr == [fmt |-> "empty", v |-> 0, tag |-> ""]
TextStr(n) == [fmt |-> "text", v |-> n, tag |-> ""]
FloatStr(n) == [fmt |-> "float", v |-> n, tag |-> ""]
TaggedStr(n, t) == [fmt |-> "tagged", v |-> n, tag |-> t]
ZeroLiteral == TextStr(0)
Truthy(s) == s.fmt # "empty"
ToFloat(s) == s.v

\* password.strip()
Strip(p) ==
    CASE p = " pw "  -> "pw"
      [] p = " bad " -> "bad"
      [] OTHER       -> p

\* `if password:` / `if not password`
PasswordGiven(p) == p # PyNone /\ p # ""

\* Day-first date strings as <<day, month, year>>.
NoDate == <<0, 0, 0>>
D1 == <<2, 4, 2024>>
D2 == <<15, 3, 2024>>

(***************************************************************************)
(* Document text.                                                          *)
(***************************************************************************)
\* gap: the number of blanks between the number and its tag.
TokGap(v, tag, gap) == [v |-> v, tag |-> tag, gap |-> gap]
Tok(v, tag) == TokGap(v, tag, 1)
Word == Tok(0, "w")

Line(k, date, sno, dr, toks) ==
    [k |-> k, date |-> date, sno |-> sno, dr |-> dr, toks |-> toks]
PB == Line("pb", NoDate, 0, FALSE, <<>>)
Blank == Line("blank", NoDate, 0, FALSE, <<>>)
Hdr == Line("hdr", NoDate, 0, FALSE, <<>>)
TextLine(toks) == Line("text", NoDate, 0, FALSE, toks)
OpenLine(n) == Line("open", NoDate, 0, FALSE, <<Tok(n, "")>>)
ChqLine == Line("chq", NoDate, 0, FALSE, <<>>)

\* The pages of a document: every "pb" item ends a page.
RECURSIVE SplitPages(_, _, _)
SplitPages(d, i, cur) ==
    IF i > Len(d) THEN <<>>
    ELSE IF d[i].k = "pb" THEN <<cur>> \o SplitPages(d, i + 1, <<>>)
    ELSE SplitPages(d, i + 1, Append(cur, d[i]))

Pages(d) == SplitPages(d, 1, <<>>)

\* page.extract_text() is falsy: the page has no text at all.
NoText(page) == page = <<>>
\* page.extract_text() raises: the page's content stream cannot be read.
Unreadable == Line("unreadable", NoDate, 0, FALSE, <<>>)
TextRaises(page) == \E i \in 1..Len(page) : page[i].k = "unreadable"
\* len(text.strip()) < 10: only whitespace on the page.
OnlyWhitespace(page) == \A i \in 1..Len(page) : page[i].k = "blank"

Min2(a, b) == IF a < b THEN a ELSE b

\* Python's order on day-first date strings: character by character, that
\* is by day, then month, then year.
StrLess(a, b) ==
    \/ a[1] < b[1]
    \/ a[1] = b[1] /\ a[2] < b[2]
    \/ a[1] = b[1] /\ a[2] = b[2] /\ a[3] < b[3]

\* min(dates) / max(dates) over the date strings of a non-empty list.
StrMinDate(txns) ==
    CHOOSE d \in {txns[i].Date : i \in 1..Len(txns)} :
        \A j \in 1..Len(txns) : ~StrLess(txns[j].Date, d)
StrMaxDate(txns) ==
    CHOOSE d \in {txns[i].Date : i \in 1..Len(txns)} :
        \A j \in 1..Len(txns) : ~StrLess(d, txns[j].Date)

DebitValue(t) == IF Truthy(t.Debit) THEN ToFloat(t.Debit) ELSE 0
CreditValue(t) == IF Truthy(t.Credit) THEN ToFloat(t.Credit) ELSE 0

\* total_debits / total_credits: the loops over t['Debit'] and t['Credit'].
RECURSIVE SumDebits(_, _)
SumDebits(txns, i) ==
    IF i > Len(txns) THEN 0 ELSE DebitValue(txns[i]) + SumDebits(txns, i + 1)

RECURSIVE SumCredits(_, _)
SumCredits(txns, i) ==
    IF i > Len(txns) THEN 0 ELSE CreditValue(txns[i]) + SumCredits(txns, i + 1)

(***************************************************************************)
(* APGVBExtractor (balance-delta parser).                                  *)
(***************************************************************************)
\* self._previous_balance: absent until _initialize_previous_balance ran.
NoPreviousBalance == [set |-> FALSE, v |-> 0]

APGVB_initialize_previous_balance(pb) ==
    IF pb.set THEN pb ELSE [set |-> TRUE, v |-> 0]

APGVB_should_skip_header_line(line) == line.k \in {"hdr", "open"}

APGVB_should_skip_empty_or_separator_line(line) == line.k = "blank"

\* The anchor ^DD-MM-YYYY DD-MM-YYYY (.+) matches; gl_date is line.date.
APGVB_parse_transaction_line(line) == line.k = "txn"

APGVB_should_skip_line(line) == line.k = "blank"

\* Index of the first token matching ([\d,]+\.?\d*)Cr\s+ : a number with
\* the Cr suffix that is followed by more text on the stripped line.
\* 0 when the line has none.
APGVB_extract_balance_from_line(line) ==
    LET S == {i \in 1..Len(line.toks) :
                 line.toks[i].tag \in {"Cr", "CrBad"} /\ i < Len(line.toks)}
    IN IF S = {} THEN 0 ELSE CHOOSE i \in S : \A j \in S : i <= j

\* The numbers re.findall sees in the text before the balance: those of
\* the two leading dates of an anchor line, then the numeric tokens.
NumbersBefore(line, bi) ==
    (IF line.k = "txn"
     THEN <<line.date[1], line.date[2], line.date[3],
            line.date[1], line.date[2], line.date[3]>>
     ELSE <<>>)
    \o [j \in 1..Cardinality({i \in 1..(bi - 1) : line.toks[i].tag # "w"}) |->
          LET idx == CHOOSE i \in 1..(bi - 1) :
                        /\ line.toks[i].tag # "w"
                        /\ Cardinality({h \in 1..i : line.toks[h].tag # "w"}) = j
          IN line.toks[idx].v]

\* clean_amounts[-1], or None (-1) when there is no number.
APGVB_extract_transaction_amount(line, bi) ==
    LET nums == NumbersBefore(line, bi)
    IN IF Len(nums) >= 1 THEN nums[Len(nums)] ELSE -1

\* A classification that looks at the sign of the balance itself and never
\* at the previous balance.
APGVB_determine_transaction_type_stateless(transaction_amount, current_balance, offset, previous_balance) ==
    IF current_balance >= 0
    THEN [found |-> TRUE, debit |-> ZeroLiteral, credit |-> FloatStr(transaction_amount),
          balance |-> FloatStr(current_balance), offset |-> offset,
          current |-> current_balance, raised |-> FALSE]
    ELSE [found |-> TRUE, debit |-> FloatStr(transaction_amount), credit |-> ZeroLiteral,
          balance |-> FloatStr(current_balance), offset |-> offset,
          current |-> current_balance, raised |-> FALSE]

\* (debit_amount, credit_amount, balance, offset) from the balance change.
APGVB_determine_transaction_type(transaction_amount, current_balance, offset, previous_balance) ==
    LET balance_change == current_balance - previous_balance
    IN IF balance_change > 0
       THEN [found |-> TRUE, debit |-> ZeroLiteral, credit |-> FloatStr(transaction_amount),
             balance |-> FloatStr(current_balance), offset |-> offset,
             current |-> current_balance, raised |-> FALSE]
       ELSE IF balance_change < 0
       THEN [found |-> TRUE, debit |-> FloatStr(transaction_amount), credit |-> ZeroLiteral,
             balance |-> FloatStr(current_balance), offset |-> offset,
             current |-> current_balance, raised |-> FALSE]
       ELSE [found |-> TRUE, debit |-> ZeroLiteral, credit |-> FloatStr(transaction_amount),
             balance |-> FloatStr(current_balance), offset |-> offset,
             current |-> current_balance, raised |-> FALSE]

NoAmounts == [found |-> FALSE, debit |-> EmptyStr, credit |-> EmptyStr,
              balance |-> EmptyStr, offset |-> 0, current |-> 0, raised |-> FALSE]

\* float(balance_match.group(1).replace(',', '')) raises ValueError: the
\* text matched by [\d,]+ before "Cr" holds no digit (",Cr").
APGVB_balance_raises(line, bi) == line.toks[bi].tag = "CrBad"

\* The exception leaves _extract_transaction_amounts; the except clause of
\* the line loop catches it.
AmountsRaised == [NoAmounts EXCEPT !.raised = TRUE]

\* The look-ahead of _extract_transaction_amounts: offsets 0..3 from the
\* anchor line (start is 1-based here), previous_balance already
\* initialized by the caller of this loop.
RECURSIVE APGVB_extract_transaction_amounts(_, _, _, _)
APGVB_extract_transaction_amounts(lines, start, offset, previous_balance) ==
    IF offset >= Min2(4, Len(lines) - (start - 1)) THEN NoAmounts
    ELSE LET line == lines[start + offset]
             bi == APGVB_extract_balance_from_line(line)
         IN IF ~APGVB_should_skip_line(line) /\ bi # 0 /\ APGVB_balance_raises(line, bi)
            THEN AmountsRaised
            ELSE IF APGVB_should_skip_line(line) \/ bi = 0
               \/ APGVB_extract_transaction_amount(line, bi) = -1
            THEN APGVB_extract_transaction_amounts(lines, start, offset + 1, previous_balance)
            ELSE APGVB_determine_transaction_type(
                     APGVB_extract_transaction_amount(line, bi),
                     line.toks[bi].v, offset, previous_balance)

\* The record built by _process_transaction_data.
APGVB_process_transaction_data(gl_date, amounts_info, counter, page_num) ==
    [S_No |-> counter,
     Date |-> gl_date,
     Transaction_ID |-> "",
     Debit |-> IF Truthy(amounts_info.debit) /\ amounts_info.debit # ZeroLiteral
               THEN amounts_info.debit ELSE EmptyStr,
     Credit |-> IF Truthy(amounts_info.credit) /\ amounts_info.credit # ZeroLiteral
                THEN amounts_info.credit ELSE EmptyStr,
     Balance |-> amounts_info.balance,
     Transaction_Type |-> IF Truthy(amounts_info.credit) /\ amounts_info.credit # ZeroLiteral
                          THEN "Credit" ELSE "Debit",
     Page_Number |-> page_num]

\* The while loop of _extract_transactions_from_page from line i on.
\* acc = [txns, counter, pb]: the page's transactions so far, the serial
\* counter and self._previous_balance.
RECURSIVE APGVB_extract_transactions_from_page(_, _, _, _)
APGVB_extract_transactions_from_page(lines, i, page_num, acc) ==
    IF i > Len(lines) THEN acc
    ELSE IF \/ APGVB_should_skip_header_line(lines[i])
            \/ APGVB_should_skip_empty_or_separator_line(lines[i])
            \/ ~APGVB_parse_transaction_line(lines[i])
    THEN APGVB_extract_transactions_from_page(lines, i + 1, page_num, acc)
    ELSE LET pb0 == APGVB_initialize_previous_balance(acc.pb)
             info == APGVB_extract_transaction_amounts(lines, i, 0, pb0.v)
         IN IF ~info.found
            THEN APGVB_extract_transactions_from_page(
                     lines, i + 1, page_num, [acc EXCEPT !.pb = pb0])
            ELSE APGVB_extract_transactions_from_page(
                     lines, i + info.offset + 1, page_num,
                     [txns |-> Append(acc.txns,
                                  APGVB_process_transaction_data(
                                      lines[i].date, info, acc.counter, page_num)),
                      counter |-> acc.counter + 1,
                      pb |-> [set |-> TRUE, v |-> info.current]])

\* metadata["opening_balance"]: the last "Opening Balance : n" line of the
\* first two pages sets it; the key is absent when there is none.
FirstPagesLines(pages, n) ==
    IF Len(pages) = 0 THEN <<>>
    ELSE IF Len(pages) = 1 \/ n = 1 THEN pages[1]
    ELSE pages[1] \o pages[2]

APGVB_extract_statement_metadata(pages) ==
    LET lines == FirstPagesLines(pages, 2)
        S == {i \in 1..Len(lines) : lines[i].k = "open"}
        base == [bank_name |-> "Andhra Pradesh Grameena Bank", currency |-> "INR"]
    IN IF S = {} THEN base
       ELSE LET last == CHOOSE i \in S : \A j \in S : j <= i
            IN base @@ [opening_balance |-> lines[last].toks[1].v]

APGVB_calculate_financial_summary(transactions, metadata) ==
    IF transactions = <<>> THEN EmptyDict
    ELSE [opening_balance |-> IF "opening_balance" \in DOMAIN metadata
                              THEN metadata.opening_balance ELSE 0,
          closing_balance |-> ToFloat(transactions[Len(transactions)].Balance),
          total_debits |-> SumDebits(transactions, 1),
          total_credits |-> SumCredits(transactions, 1),
          net_change |-> SumCredits(transactions, 1)
                         - SumDebits(transactions, 1),
          transaction_count |-> Len(transactions),
          date_range |-> [from_date |-> StrMinDate(transactions),
                          to_date |-> StrMaxDate(transactions)]]

(***************************************************************************)
(* CanaraBankExtractor.                                                    *)
(***************************************************************************)
\* The numeric_values of an amounts line: the whitespace-separated words
\* that are decimal numbers.  A number glued to a Cr suffix is none.
Canara_numeric_values(line) ==
    LET S == {i \in 1..Len(line.toks) : line.toks[i].tag \in {"", "(Cr)", "(Dr)"}}
    IN [j \in 1..Cardinality(S) |->
          LET idx == CHOOSE i \in S : Cardinality({h \in S : h <= i}) = j
          IN line.toks[idx].v]

\* _combine_transaction_lines from line i on; start is the anchor line.
RECURSIVE Canara_combine_transaction_lines(_, _, _, _)
Canara_combine_transaction_lines(lines, start, i, combined_lines) ==
    IF i > Len(lines)
    THEN [combined |-> combined_lines, amounts_line |-> Blank]
    ELSE IF lines[i].k = "blank"
    THEN Canara_combine_transaction_lines(lines, start, i + 1, combined_lines)
    ELSE IF lines[i].k = "chq"
    THEN [combined |-> Append(combined_lines, lines[i]),
          amounts_line |-> IF i + 1 <= Len(lines) THEN lines[i + 1] ELSE Blank]
    ELSE IF i > start /\ lines[i].k = "txn"
    THEN [combined |-> combined_lines, amounts_line |-> Blank]
    ELSE Canara_combine_transaction_lines(lines, start, i + 1,
                                          Append(combined_lines, lines[i]))

\* _find_next_transaction_start: the next anchor after current_index, or
\* the end of the page.
Canara_find_next_transaction_start(lines, current_index) ==
    LET S == {j \in (current_index + 1)..Len(lines) : lines[j].k = "txn"}
    IN IF S = {} THEN Len(lines) + 1 ELSE CHOOSE j \in S : \A h \in S : j <= h

Canara_parse_combined_transaction(combined, amounts_line, page_num, serial_number) ==
    LET numeric_values == Canara_numeric_values(amounts_line)
        amount_str == IF Len(numeric_values) >= 2
                      THEN TextStr(numeric_values[1]) ELSE ZeroLiteral
        balance_str == IF Len(numeric_values) >= 2 THEN TextStr(numeric_values[2])
                       ELSE IF Len(numeric_values) = 1 THEN TextStr(numeric_values[1])
                       ELSE ZeroLiteral
        transaction_type == IF \E h \in 1..Len(combined) : combined[h].dr
                            THEN "Debit" ELSE "Credit"
    IN [S_No |-> serial_number,
        Date |-> combined[1].date,
        Debit |-> IF transaction_type = "Debit" THEN amount_str ELSE EmptyStr,
        Credit |-> IF transaction_type = "Debit" THEN EmptyStr ELSE amount_str,
        Balance |-> balance_str,
        Transaction_Type |-> transaction_type,
        Page_Number |-> page_num]

\* The while loop of _extract_transactions_from_page from line i on;
\* acc = [txns, counter].
RECURSIVE Canara_extract_transactions_from_page(_, _, _, _)
Canara_extract_transactions_from_page(lines, i, page_num, acc) ==
    IF i > Len(lines) THEN acc
    ELSE IF lines[i].k \in {"hdr", "open"} \/ lines[i].k # "txn"
    THEN Canara_extract_transactions_from_page(lines, i + 1, page_num, acc)
    ELSE LET c == Canara_combine_transaction_lines(lines, i, i, <<>>)
         IN Canara_extract_transactions_from_page(
                lines, Canara_find_next_transaction_start(lines, i), page_num,
                [txns |-> Append(acc.txns,
                             Canara_parse_combined_transaction(
                                 c.combined, c.amounts_line, page_num, acc.counter)),
                 counter |-> acc.counter + 1])

\* Each page starts its own serial counter at 1 (line 221).
Canara_page_transactions(lines, page_num) ==
    Canara_extract_transactions_from_page(
        lines, 1, page_num, [txns |-> <<>>, counter |-> 1]).txns

Canara_extract_statement_metadata(first_page) ==
    [bank_name |-> "Canara Bank", currency |-> "INR"]

\* datetime.strptime(x['Date'], '%d-%m-%Y') order: year, month, day.
ChronoLess(a, b) ==
    \/ a[3] < b[3]
    \/ a[3] = b[3] /\ a[2] < b[2]
    \/ a[3] = b[3] /\ a[2] = b[2] /\ a[1] < b[1]

\* sorted(..., key=date): stable, so equal dates keep their list order.
RECURSIVE InsertByDate(_, _)
InsertByDate(sorted, t) ==
    IF sorted = <<>> THEN <<t>>
    ELSE IF ChronoLess(t.Date, sorted[Len(sorted)].Date)
    THEN Append(InsertByDate(SubSeq(sorted, 1, Len(sorted) - 1), t),
                sorted[Len(sorted)])
    ELSE Append(sorted, t)

RECURSIVE SortedByDate(_, _)
SortedByDate(txns, n) ==
    IF n = 0 THEN <<>> ELSE InsertByDate(SortedByDate(txns, n - 1), txns[n])

Canara_calculate_financial_summary(transactions) ==
    IF transactions = <<>> THEN EmptyDict
    ELSE LET sorted_transactions == SortedByDate(transactions, Len(transactions))
             first_transaction == sorted_transactions[1]
             last_transaction == sorted_transactions[Len(sorted_transactions)]
         IN [opening_balance |-> ToFloat(last_transaction.Balance),
             closing_balance |-> ToFloat(first_transaction.Balance),
             total_debits |-> SumDebits(transactions, 1),
             total_credits |-> SumCredits(transactions, 1),
             net_change |-> SumCredits(transactions, 1) - SumDebits(transactions, 1),
             transaction_count |-> Len(transactions),
             date_range |-> [from_date |-> StrMinDate(transactions),
                             to_date |-> StrMaxDate(transactions)]]

(***************************************************************************)
(* UnionBankExtractor (explicit-marker parser).                            *)
(***************************************************************************)
\* re.findall of (\d+\.?\d*)\s*\((Dr|Cr)\) over the combined lines.
RECURSIVE Union_amount_matches(_, _)
Union_amount_matches(combined, h) ==
    IF h > Len(combined) THEN <<>>
    ELSE SelectSeq(combined[h].toks, LAMBDA t : t.tag \in {"(Dr)", "(Cr)"})
         \o Union_amount_matches(combined, h + 1)

\* _combine_transaction_lines: the while loop from line j on.
RECURSIVE Union_combine_transaction_lines(_, _, _)
Union_combine_transaction_lines(lines, j, combined_line) ==
    IF j > Len(lines) \/ Len(Union_amount_matches(combined_line, 1)) >= 2
    THEN combined_line
    ELSE IF lines[j].k # "blank" /\ lines[j].k # "txn"
    THEN Union_combine_transaction_lines(lines, j + 1, Append(combined_line, lines[j]))
    ELSE combined_line

NoTransaction == [none |-> TRUE]

\* The words and numbers of the combined lines, in order.
RECURSIVE Union_line_text(_, _)
Union_line_text(combined, h) ==
    IF h > Len(combined) THEN <<>>
    ELSE combined[h].toks \o Union_line_text(combined, h + 1)

\* A piece of the line's text: its items, and whether the slice ends one
\* character before the end of the line.
Text(items, cut) == [items |-> items, cut |-> cut]

\* remarks = line[remarks_start:remarks_end].strip() with remarks_end =
\* line.find(f"{amount_value} ({amount_type})"): the first place where the
\* amount is written with exactly one blank before its tag, or -1.
Union_remarks(combined, amount) ==
    LET text == Union_line_text(combined, 1)
        S == {h \in 1..Len(text) :
                 text[h].v = amount.v /\ text[h].tag = amount.tag /\ text[h].gap = 1}
    IN IF S = {} THEN Text(text, TRUE)
       ELSE Text(SubSeq(text, 1, (CHOOSE h \in S : \A g \in S : h <= g) - 1), FALSE)

Union_parse_transaction_line(combined, page_num) ==
    LET amount_matches == Union_amount_matches(combined, 1)
    IN IF Len(amount_matches) < 2 THEN NoTransaction
       ELSE LET amount == amount_matches[1]
                balance == amount_matches[Len(amount_matches)]
            IN [S_No |-> combined[1].sno,
                Date |-> combined[1].date,
                Transaction_ID |-> "TXNID",
                Remarks |-> Union_remarks(combined, amount),
                Amount |-> TaggedStr(amount.v, amount.tag),
                Balance |-> TaggedStr(balance.v, balance.tag),
                Amount_Numeric |-> IF amount.tag = "(Dr)" THEN -amount.v ELSE amount.v,
                Balance_Numeric |-> IF balance.tag = "(Dr)" THEN -balance.v ELSE balance.v,
                Transaction_Type |-> IF amount.tag = "(Cr)" THEN "Credit" ELSE "Debit",
                Page_Number |-> page_num]

\* The for loop of _extract_transactions_from_page from line i on.
RECURSIVE Union_extract_transactions_from_page(_, _, _, _)
Union_extract_transactions_from_page(lines, i, page_num, transactions) ==
    IF i > Len(lines) THEN transactions
    ELSE IF lines[i].k = "hdr" \/ lines[i].k # "txn"
    THEN Union_extract_transactions_from_page(lines, i + 1, page_num, transactions)
    ELSE LET t == Union_parse_transaction_line(
                      Union_combine_transaction_lines(lines, i + 1, <<lines[i]>>),
                      page_num)
         IN Union_extract_transactions_from_page(
                lines, i + 1, page_num,
                IF t = NoTransaction THEN transactions ELSE Append(transactions, t))

\* A "Statement Period" line: DATE1 in full (line.date), then "To" and
\* DATE2 as day and month ("period"), DATE2 in full ("period_full"), or no
\* date at all ("period_none").
PeriodLine(date1, day2, month2) ==
    Line("period", date1, 0, FALSE, <<Tok(day2, "dd"), Tok(month2, "mm")>>)
FullPeriodLine(date1, date2) ==
    Line("period_full", date1, 0, FALSE,
         <<Tok(date2[1], "dd"), Tok(date2[2], "mm"), Tok(date2[3], "yyyy")>>)
BarePeriodLine == Line("period_none", NoDate, 0, FALSE, <<>>)
\* A line that holds one run of four digits.
YearLine(y) == TextLine(<<Tok(y, "year")>>)

\* No year found (to_year is None).
NoYear == 0

\* re.search(r'/(\d{4})', line[line.find(to_partial):]): find() returns the
\* first place where the text of DATE2 occurs, which is inside DATE1 when
\* DATE1 has the same day and month, and the search then meets DATE1's
\* "/YYYY"; otherwise the first "/YYYY" written after DATE2 on the line.
Union_year_on_line(line) ==
    IF line.date[1] = line.toks[1].v /\ line.date[2] = line.toks[2].v
    THEN line.date[3]
    ELSE LET S == {h \in 3..Len(line.toks) : line.toks[h].tag = "/yyyy"}
         IN IF S = {} THEN NoYear
            ELSE line.toks[CHOOSE h \in S : \A g \in S : h <= g].v

\* The four-digit runs of a line, in order.
YearMatches(line) == SelectSeq(line.toks, LAMBDA t : t.tag \in {"year", "/yyyy", "yyyy"})

\* The loop over lines[i + 1 .. min(i + 4, len(lines)) - 1] (here j is
\* 1-based, i the index of the period line): the first four-digit run that
\* differs from from_year.
RECURSIVE Union_year_on_next_lines(_, _, _, _)
Union_year_on_next_lines(lines, i, j, from_year) ==
    IF j > Min2(i + 3, Len(lines)) THEN NoYear
    ELSE LET S == {h \in 1..Len(YearMatches(lines[j])) :
                      YearMatches(lines[j])[h].v # from_year}
         IN IF S # {}
            THEN YearMatches(lines[j])[CHOOSE h \in S : \A g \in S : h <= g].v
            ELSE Union_year_on_next_lines(lines, i, j + 1, from_year)

\* The for loop of _extract_statement_metadata over the lines from i on, as
\* far as the statement period goes.  acc: the local variables from_date
\* and to_date (bound or not), metadata["statement_period"], and whether
\* the read of an unbound local raised.
NoPeriodState ==
    [from_bound |-> FALSE, from_date |-> NoDate, to_bound |-> FALSE,
     to_date |-> NoDate, period_set |-> FALSE, period_from |-> NoDate,
     period_to |-> NoDate, raised |-> FALSE]

RECURSIVE Union_statement_period(_, _, _)
Union_statement_period(lines, i, acc) ==
    IF i > Len(lines) \/ acc.raised THEN acc
    ELSE IF lines[i].k = "period_full"
    THEN Union_statement_period(lines, i + 1,
             [acc EXCEPT !.from_bound = TRUE, !.from_date = lines[i].date,
                         !.to_bound = TRUE,
                         !.to_date = <<lines[i].toks[1].v, lines[i].toks[2].v,
                                       lines[i].toks[3].v>>])
    ELSE IF lines[i].k = "period"
    THEN LET on_line == Union_year_on_line(lines[i])
             to_year == IF on_line # NoYear THEN on_line
                        ELSE Union_year_on_next_lines(lines, i, i + 1, lines[i].date[3])
             to_date == <<lines[i].toks[1].v, lines[i].toks[2].v, to_year>>
         IN Union_statement_period(lines, i + 1,
                IF to_year # NoYear
                THEN [acc EXCEPT !.from_bound = TRUE, !.from_date = lines[i].date,
                                 !.to_bound = TRUE, !.to_date = to_date,
                                 !.period_set = TRUE,
                                 !.period_from = lines[i].date,
                                 !.period_to = to_date]
                ELSE [acc EXCEPT !.from_bound = TRUE, !.from_date = lines[i].date])
    ELSE IF lines[i].k = "period_none"
    THEN Union_statement_period(lines, i + 1,
             IF acc.from_bound /\ acc.to_bound
             THEN [acc EXCEPT !.period_set = TRUE, !.period_from = acc.from_date,
                              !.period_to = acc.to_date]
             ELSE [acc EXCEPT !.raised = TRUE])
    ELSE Union_statement_period(lines, i + 1, acc)

\* metadata[...] = {"from_date": from_date, ...} reads a local variable no
\* branch has bound: UnboundLocalError leaves _extract_statement_metadata.
Union_metadata_raises(first_page) ==
    Union_statement_period(first_page, 1, NoPeriodState).raised

Union_extract_statement_metadata(first_page) ==
    LET base == [bank_name |-> "Union Bank of India", currency |-> "INR"]
        acc == Union_statement_period(first_page, 1, NoPeriodState)
    IN IF acc.period_set
       THEN base @@ [statement_period |->
                        [from_date |-> acc.period_from, to_date |-> acc.period_to]]
       ELSE base

RECURSIVE SumAmountNumeric(_, _, _)
SumAmountNumeric(txns, i, sign) ==
    IF i > Len(txns) THEN 0
    ELSE (IF txns[i].Amount_Numeric * sign > 0 THEN txns[i].Amount_Numeric ELSE 0)
         + SumAmountNumeric(txns, i + 1, sign)

Union_calculate_financial_summary(transactions) ==
    IF transactions = <<>> THEN EmptyDict
    ELSE [opening_balance |-> transactions[Len(transactions)].Balance_Numeric,
          closing_balance |-> transactions[1].Balance_Numeric,
          total_debits |-> SumAmountNumeric(transactions, 1, -1),
          total_credits |-> SumAmountNumeric(transactions, 1, 1),
          net_change |-> SumAmountNumeric(transactions, 1, 1)
                         + SumAmountNumeric(transactions, 1, -1),
          transaction_count |-> Len(transactions),
          date_range |-> [from_date |-> StrMinDate(transactions),
                          to_date |-> StrMaxDate(transactions)]]

(***************************************************************************)
(* The documents and calls explored.                                       *)
(***************************************************************************)
Banks == {"APGVB", "CANARA", "UNION"}

\* The user password every encrypted document of the model was saved with.
DocPassword == "pw"
Passwords == {PyNone, "", "pw", " pw ", "bad", " bad "}

\* APGVB lines: "DD-MM-YYYY DD-MM-YYYY text amount balanceCr user", an
\* anchor without amounts, and a continuation line that holds the amounts.
A_Txn(date, amt, bal) ==
    Line("txn", date, 0, FALSE, <<Tok(amt, ""), Tok(bal, "Cr"), Word>>)
A_Bare == Line("txn", D1, 0, FALSE, <<>>)
A_Amounts(amt, bal) == TextLine(<<Tok(amt, ""), Tok(bal, "Cr"), Word>>)
APGVBLines ==
    {A_Txn(D1, 500, 500), A_Txn(D1, 500, 1000), A_Txn(D1, 500, 1500),
     A_Txn(D1, 0, 1000), A_Bare, A_Amounts(500, 1000), Hdr, OpenLine(1000), PB}

\* Canara lines: "DD-MM-YYYY particulars", "Chq: ...", the amounts line.
C_Txn(date, dr) == Line("txn", date, 0, dr, <<>>)
C_Amounts(amt, bal) == TextLine(<<Tok(amt, ""), Tok(bal, "")>>)
CanaraLines ==
    {C_Txn(D1, FALSE), C_Txn(D1, TRUE), ChqLine, C_Amounts(500, 1000),
     TextLine(<<Tok(1000, "")>>), TextLine(<<>>), Hdr, PB}

\* Union lines: "n DD/MM/YYYY id remarks amount (Dr|Cr) balance (Cr)".
U_Txn(sno, date, amt, ty, bal) ==
    Line("txn", date, sno, FALSE, <<Tok(amt, ty), Tok(bal, "(Cr)")>>)
U_Partial(sno, date, amt, ty) == Line("txn", date, sno, FALSE, <<Tok(amt, ty)>>)
UnionLines ==
    {U_Txn(1, D1, 500, "(Cr)", 1000), U_Txn(2, D1, 500, "(Dr)", 500),
     U_Txn(2, D1, 500, "(Cr)", 1500), U_Partial(2, D1, 500, "(Dr)"),
     TextLine(<<Tok(500, "(Cr)")>>), Hdr, Blank, PB}

LinesOf(b) ==
    CASE b = "APGVB" -> APGVBLines
      [] b = "CANARA" -> CanaraLines
      [] b = "UNION" -> UnionLines

\* Documents of at most MaxDocLen items whose last page is closed.
GeneratedDocs(b) ==
    {d \in UNION {[1..n -> LinesOf(b)] : n \in 0..MaxDocLen} :
        d = <<>> \/ d[Len(d)].k = "pb"}

\* Opening balance 1000, then balances 1500, 1200, 1800 (spec section 8).
APGVB_DeltaDoc ==
    <<Hdr, OpenLine(1000), A_Txn(D1, 500, 1500), A_Txn(D1, 300, 1200),
      A_Txn(D1, 600, 1800), PB>>
\* The same statement with a first transaction that leaves 1000.
APGVB_DeltaDoc4 ==
    <<Hdr, A_Txn(D1, 1000, 1000), A_Txn(D1, 500, 1500), A_Txn(D1, 300, 1200),
      A_Txn(D1, 600, 1800), PB>>
\* Two pages, complete Canara transactions on each.
Canara_TwoPageDoc ==
    <<Hdr, OpenLine(500), C_Txn(D2, FALSE), ChqLine, C_Amounts(500, 1000), PB,
      C_Txn(D1, TRUE), ChqLine, C_Amounts(200, 800), PB>>
Union_TwoPageDoc ==
    <<Hdr, U_Txn(1, D1, 200, "(Dr)", 800), PB,
      U_Txn(2, D2, 500, "(Cr)", 1000), U_Txn(3, D2, 0, "(Cr)", 1000), PB>>

\* A Union transaction line with its amount only; four lines of remarks
\* follow before the line that holds the balance.
Union_LateBalanceDoc ==
    <<Hdr, U_Partial(1, D1, 500, "(Dr)"), TextLine(<<>>), TextLine(<<>>),
      TextLine(<<>>), TextLine(<<>>), TextLine(<<Tok(500, "(Cr)")>>), PB>>

\* A Canara transaction whose "Chq:" and amounts lines are on the next page.
Canara_SpanningDoc ==
    <<Hdr, C_Txn(D1, TRUE), PB, ChqLine, C_Amounts(200, 800), PB>>

\* An APGVB anchor line of 15-03-2024 without amounts, directly followed by
\* the complete transaction line of 02-04-2024.
APGVB_BareAnchorDoc ==
    <<Hdr, Line("txn", D2, 0, FALSE, <<>>), A_Txn(D1, 500, 500), PB>>

\* Statements listed the other way round than the parser's summary
\* expects: APGVB newest first, Union oldest first.
APGVB_NewestFirstDoc ==
    <<Hdr, A_Txn(D1, 500, 1500), A_Txn(D2, 500, 1000), PB>>
Union_OldestFirstDoc ==
    <<Hdr, U_Txn(1, D2, 500, "(Cr)", 1000), U_Txn(2, D1, 200, "(Dr)", 800), PB>>

\* Union transaction lines with a word of remarks, the amount written
\* "500 (Dr)", "500(Dr)" and "500  (Dr)".  No amount of these lines is
\* written inside another one.
U_Remarks(gap) ==
    Line("txn", D1, 1, FALSE, <<Word, TokGap(500, "(Dr)", gap), Tok(1000, "(Cr)")>>)
Union_RemarksDocs == {<<Hdr, U_Remarks(gap), PB>> : gap \in 0..2}

ScenarioDocs(b) ==
    CASE b = "APGVB" -> {APGVB_DeltaDoc, APGVB_DeltaDoc4, APGVB_BareAnchorDoc,
                         APGVB_NewestFirstDoc}
      [] b = "CANARA" -> {Canara_TwoPageDoc, Canara_SpanningDoc}
      [] b = "UNION" -> {Union_TwoPageDoc, Union_LateBalanceDoc,
                         Union_OldestFirstDoc} \cup Union_RemarksDocs

\* An APGVB anchor line whose balance text is ",Cr".
A_Malformed == Line("txn", D1, 0, FALSE, <<Tok(500, ""), Tok(0, "CrBad"), Word>>)

APGVB_MalformedLineDoc ==
    <<Hdr, A_Txn(D1, 500, 500), A_Malformed, A_Txn(D1, 500, 1000), PB,
      A_Txn(D1, 500, 1500), PB>>

\* Statements with a page whose text cannot be read, between good pages.
APGVB_UnreadablePageDoc ==
    <<Hdr, OpenLine(1000), A_Txn(D1, 500, 1500), PB, A_Txn(D1, 300, 1200), PB,
      Unreadable, PB, A_Txn(D1, 600, 1800), PB>>
Canara_UnreadablePageDoc ==
    <<Hdr, C_Txn(D2, FALSE), ChqLine, C_Amounts(500, 1000), PB, Unreadable, PB,
      C_Txn(D1, TRUE), ChqLine, C_Amounts(200, 800), PB>>
Union_UnreadablePageDoc ==
    <<Hdr, U_Txn(1, D1, 200, "(Dr)", 800), PB, Unreadable, PB,
      U_Txn(2, D2, 500, "(Cr)", 1000), PB>>

FailureDocs(b) ==
    CASE b = "APGVB" -> {APGVB_MalformedLineDoc, APGVB_UnreadablePageDoc}
      [] b = "CANARA" -> {Canara_UnreadablePageDoc}
      [] b = "UNION" -> {Union_UnreadablePageDoc}

\* First pages of Union statements: a "Statement Period" line followed by
\* up to MaxFollow lines, each with a year or without.
MaxFollow == 4
P1 == <<1, 4, 2024>>
PeriodLines == {PeriodLine(P1, 31, 3), PeriodLine(P1, 1, 4)}
FollowLines == {YearLine(2024), YearLine(2025), TextLine(<<>>)}
PeriodDocs(b) ==
    IF b # "UNION" THEN {}
    ELSE {<<Hdr, pl>> \o f \o <<PB>> :
             pl \in PeriodLines,
             f \in UNION {[1..n -> FollowLines] : n \in 0..MaxFollow}}
         \cup {<<Hdr, FullPeriodLine(P1, <<31, 3, 2025>>), PB>>,
               <<Hdr, BarePeriodLine, PB>>,
               <<Hdr, FullPeriodLine(P1, <<31, 3, 2025>>), BarePeriodLine, PB>>}

Docs(b) ==
    GeneratedDocs(b) \cup ScenarioDocs(b) \cup FailureDocs(b) \cup PeriodDocs(b)

(***************************************************************************)
(* BankConfigService (api/bank_config.py): the state of the singleton.     *)
(* A cache is a function whose domain is the set of its keys.              *)
(***************************************************************************)
RegistryBanks == {"CANARA", "UNION"}

Threads == {1, 2}

\* What the table holds for a bank identifier: an ACTIVE item whose
\* ExtractorModule/ExtractorClass name a concrete BaseBankExtractor
\* subclass ("active"), no ACTIVE item ("inactive"), or an ACTIVE item that
\* names a class that is not a BaseBankExtractor subclass, a subclass that
\* leaves abstract methods unimplemented, or a module outside `extractors.`.
ConfigKinds == {"active", "inactive", "foreign_class", "abstract_class",
                "outside_package"}

\* The kinds the explored tables hold.
StoredKinds == {"active", "inactive", "foreign_class"}

EmptyCache == <<>>

NoConfig == [bank_id |-> PyNone, kind |-> "none"]

NoInstance == [bank_id |-> PyNone, cls |-> "none", op |-> 0]

IdleThread ==
    [op |-> "", seq |-> 0, bank_id |-> PyNone, pc |-> "idle",
     config |-> NoConfig, instance |-> NoInstance]

\* The registry as the module is imported: nothing cached, no call running.
RegistryIdle ==
    /\ store = [b \in RegistryBanks |-> "active"]
    /\ cache = EmptyCache
    /\ cache_timestamp = PyNone
    /\ lru = EmptyCache
    /\ extractor_cache = EmptyCache
    /\ threads = [t \in Threads |-> IdleThread]
    /\ ops = 0
    /\ registry_log = {}

NoWorker ==
    [doc |-> <<>>, pc |-> "idle", page_idx |-> 1, all_transactions |-> <<>>,
     transaction_counter |-> 1, result |-> EmptyDict]

\* No thread is inside a parser call.
WorkersIdle == workers = [t \in Threads |-> NoWorker]

(***************************************************************************)
(* PDFValidator (api/validators/pdf_validator.py).                         *)
(***************************************************************************)
MAX_PAGES == 200
MAX_FILE_SIZE_MB == 25
MIN_TEXT_LENGTH == 100

\* Confidence scores are counted in tenths: 10 is 1.0, 3 is 0.3.
ConfidenceOne == 10

\* A file as validate sees it; the fields past `magic` describe what pypdf
\* finds in it.
NoFile ==
    [exists |-> FALSE, magic |-> FALSE, size_mb |-> 0, parses |-> FALSE,
     is_encrypted |-> FALSE, page_count |-> 0, text_length |-> 0,
     has_images |-> FALSE, text_raises |-> FALSE]

NoValidationResult ==
    [is_valid |-> FALSE, pdf_type |-> "", error_code |-> "", confidence_score |-> 0]

\* No validation is running.
ValidatorIdle ==
    /\ pdf_file = NoFile
    /\ validator_password = PyNone
    /\ validator_pc = "idle"
    /\ checks = <<>>
    /\ validation_result = NoValidationResult

(***************************************************************************)
(* The upload and processor Lambdas (api/lambdas).                         *)
(***************************************************************************)
Jobs == {1, 2}

\* The process_message invocation of a job before its message arrives:
\* no temporary file, no exception raised.
NoProcessor == [pc |-> "idle", tmp_file |-> FALSE, raised |-> FALSE]

\* No job was uploaded.
JobIdle ==
    /\ jobs_table = [j \in Jobs |-> "absent"]
    /\ queue = {}
    /\ uploader = [j \in Jobs |-> "done"]
    /\ processor = [j \in Jobs |-> NoProcessor]
    /\ s3_results = {}
    /\ status_writes = [j \in Jobs |-> <<>>]

(***************************************************************************)
(* extract_complete_statement, step by step.                               *)
(***************************************************************************)
NewInstance ==
    [statement_metadata |-> EmptyDict,
     financial_summary |-> EmptyDict,
     transactions |-> <<>>,
     previous_balance |-> NoPreviousBalance]

FirstStep(b) == IF b = "APGVB" THEN "validate" ELSE "decrypt"

Init ==
    /\ bank \in Banks
    /\ doc \in Docs(bank)
    /\ encrypted \in BOOLEAN
    /\ password \in (IF encrypted THEN Passwords ELSE {PyNone})
    /\ pc = FirstStep(bank)
    /\ calls = 1
    /\ decrypted = FALSE
    /\ attempts = <<>>
    /\ page_idx = 1
    /\ all_transactions = <<>>
    /\ transaction_counter = 1
    /\ inst = NewInstance
    /\ start_prev = NoPreviousBalance
    /\ results = <<>>
    /\ enhanced \in BOOLEAN
    /\ engine_results = <<>>
    /\ RegistryIdle
    /\ WorkersIdle
    /\ ValidatorIdle
    /\ JobIdle

\* BaseBankExtractor.get_extraction_metadata of the parser of bank b.
get_supported_capabilities(b) ==
    CASE b = "APGVB" -> <<"multi_page", "transactions", "financial_summary",
                          "account_metadata", "statement_period",
                          "balance_calculation", "transaction_types">>
      [] b = "CANARA" -> <<"password_protected", "multi_page", "transactions",
                           "financial_summary", "account_metadata", "statement_period">>
      [] b = "UNION" -> <<"password_protected", "multi_page", "transactions",
                          "account_metadata", "statement_period">>

extractor_class(b) ==
    CASE b = "APGVB" -> "APGVBExtractor"
      [] b = "CANARA" -> "CanaraBankExtractor"
      [] b = "UNION" -> "UnionBankExtractor"

get_bank_name(b) ==
    CASE b = "APGVB" -> "Andhra Pradesh Grameena Bank"
      [] b = "CANARA" -> "Canara Bank"
      [] b = "UNION" -> "Union Bank of India"

get_extraction_metadata(b) ==
    [bank_name |-> get_bank_name(b),
     version |-> "1.0.0",
     capabilities |-> get_supported_capabilities(b),
     extractor_class |-> extractor_class(b)]

\* An engine that hands the parser's dictionary on as it got it.
engine_return_as_parsed(b, enh, result) ==
    IF enh
    THEN [ok |-> TRUE, format |-> "enhanced", value |-> result, exc |-> "", reason |-> ""]
    ELSE [ok |-> TRUE, format |-> "legacy", value |-> result.transactions,
          exc |-> "", reason |-> ""]

\* extract_bank_statement_data after extract_complete_statement returned
\* result: the two keys it sets, then the enhanced or the legacy format.
engine_return(b, enh, result) ==
    LET added == [extractor_metadata |-> get_extraction_metadata(b),
                  processed_at |-> "now"]
        full == [k \in DOMAIN result \cup DOMAIN added |->
                    IF k \in DOMAIN added THEN added[k] ELSE result[k]]
    IN IF enh
       THEN [ok |-> TRUE, format |-> "enhanced", value |-> full, exc |-> "", reason |-> ""]
       ELSE [ok |-> TRUE, format |-> "legacy", value |-> full.transactions,
             exc |-> "", reason |-> ""]

\* `except Exception: ... raise` of extract_bank_statement_data.
engine_raise(exc, reason) ==
    [ok |-> FALSE, format |-> "", value |-> EmptyDict, exc |-> exc, reason |-> reason]

\* The call ends by an exception that propagates to the caller.
Raise(exc, reason) ==
    /\ results' = Append(results, [ok |-> FALSE, exc |-> exc, reason |-> reason,
                                   value |-> EmptyDict])
    /\ engine_results' = Append(engine_results, engine_raise(exc, reason))
    /\ pc' = "done"

\* pdf_reader.pages of an encrypted reader that was not decrypted raises
\* pypdf's FileNotDecryptedError (a PdfReadError).
PagesReadable == ~encrypted \/ decrypted

\* APGVB only: _validate_pdf_content(pdf_reader, ...) runs before the
\* decryption (lines 359-364).
APGVB_validate_pdf_content ==
    /\ pc = "validate"
    /\ IF ~PagesReadable
       THEN Raise("ValueError", "Invalid or corrupted PDF file")
       ELSE IF Len(Pages(doc)) = 0
       THEN Raise("ValueError", "PDF has no pages")
       ELSE IF \/ TextRaises(Pages(doc)[1])
               \/ NoText(Pages(doc)[1])
               \/ OnlyWhitespace(Pages(doc)[1])
       THEN Raise("ValueError", "Failed to validate PDF content")
       ELSE pc' = "decrypt" /\ UNCHANGED <<results, engine_results>>
    /\ UNCHANGED <<bank, doc, enhanced, encrypted, password, calls, decrypted, attempts,
                   page_idx, all_transactions, transaction_counter, inst,
                   start_prev>>
    /\ UNCHANGED other_than_parser

\* `if pdf_reader.is_encrypted:` and the decryption with the password as
\* given.
Decrypt ==
    /\ pc = "decrypt"
    /\ IF ~encrypted
       THEN pc' = "metadata" /\ UNCHANGED <<results, engine_results, attempts, decrypted>>
       ELSE IF ~PasswordGiven(password)
       THEN Raise("ValueError", "encrypted but no password provided")
            /\ UNCHANGED <<attempts, decrypted>>
       ELSE /\ attempts' = Append(attempts, password)
            /\ IF password = DocPassword
               THEN pc' = "metadata" /\ decrypted' = TRUE /\ UNCHANGED <<results, engine_results>>
               ELSE IF Strip(password) # password
               THEN pc' = "decrypt_trimmed" /\ UNCHANGED <<results, engine_results, decrypted>>
               ELSE Raise("ValueError", "Failed to decrypt")
                    /\ UNCHANGED decrypted
    /\ UNCHANGED <<bank, doc, enhanced, encrypted, password, calls, page_idx,
                   all_transactions, transaction_counter, inst, start_prev>>
    /\ UNCHANGED other_than_parser

\* The second decryption, with password.strip().
DecryptTrimmed ==
    /\ pc = "decrypt_trimmed"
    /\ attempts' = Append(attempts, Strip(password))
    /\ IF Strip(password) = DocPassword
       THEN pc' = "metadata" /\ decrypted' = TRUE /\ UNCHANGED <<results, engine_results>>
       ELSE Raise("ValueError", "Failed to decrypt") /\ UNCHANGED decrypted
    /\ UNCHANGED <<bank, doc, enhanced, encrypted, password, calls, page_idx,
                   all_transactions, transaction_counter, inst, start_prev>>
    /\ UNCHANGED other_than_parser

statement_metadata_of(b, pages) ==
    CASE b = "APGVB" -> APGVB_extract_statement_metadata(pages)
      [] b = "CANARA" -> Canara_extract_statement_metadata(pages[1])
      [] b = "UNION" -> Union_extract_statement_metadata(pages[1])

\* The pages whose text the metadata pass reads: APGVB the first two,
\* Canara and Union the first.
MetadataPages(b, pages) ==
    {p \in 1..Len(pages) : p <= (IF b = "APGVB" THEN 2 ELSE 1)}

\* Pass 1: self.statement_metadata = self._extract_statement_metadata(...).
\* Canara and Union read pdf_reader.pages[0] without a page count check.
ExtractMetadata ==
    /\ pc = "metadata"
    /\ IF bank # "APGVB" /\ Len(Pages(doc)) = 0
       THEN Raise("IndexError", "pdf_reader.pages[0]")
            /\ UNCHANGED <<inst, page_idx, all_transactions,
                           transaction_counter, start_prev>>
       ELSE IF \E p \in MetadataPages(bank, Pages(doc)) : TextRaises(Pages(doc)[p])
       THEN Raise("Exception", "page.extract_text()")
            /\ UNCHANGED <<inst, page_idx, all_transactions,
                           transaction_counter, start_prev>>
       ELSE IF bank = "UNION" /\ Union_metadata_raises(Pages(doc)[1])
       THEN Raise("UnboundLocalError", "from_date")
            /\ UNCHANGED <<inst, page_idx, all_transactions,
                           transaction_counter, start_prev>>
       ELSE /\ inst' = [inst EXCEPT !.statement_metadata =
                                        statement_metadata_of(bank, Pages(doc))]
            /\ pc' = "transactions"
            /\ page_idx' = 1
            /\ all_transactions' = <<>>
            /\ transaction_counter' = 1
            /\ start_prev' = inst.previous_balance
            /\ UNCHANGED <<results, engine_results>>
    /\ UNCHANGED <<bank, doc, enhanced, encrypted, password, calls, decrypted, attempts>>
    /\ UNCHANGED other_than_parser

\* What one page adds: [txns, pb] (pb: self._previous_balance afterwards).
page_result(b, page, page_num, counter, pb) ==
    IF NoText(page) THEN [txns |-> <<>>, pb |-> pb]
    ELSE CASE b = "APGVB" ->
                LET acc == APGVB_extract_transactions_from_page(
                               page, 1, page_num,
                               [txns |-> <<>>, counter |-> counter, pb |-> pb])
                IN [txns |-> acc.txns, pb |-> acc.pb]
           [] b = "CANARA" ->
                [txns |-> Canara_page_transactions(page, page_num), pb |-> pb]
           [] b = "UNION" ->
                [txns |-> Union_extract_transactions_from_page(page, 1, page_num, <<>>),
                 pb |-> pb]

\* Pass 2: one iteration of the page loop of _extract_all_transactions;
\* after the last page, self.transactions = all_transactions.
ExtractPage ==
    /\ pc = "transactions"
    /\ page_idx <= Len(Pages(doc))
    /\ IF TextRaises(Pages(doc)[page_idx])
       THEN /\ Raise("Exception", "page.extract_text()")
            /\ UNCHANGED <<all_transactions, transaction_counter, page_idx, inst>>
       ELSE LET r == page_result(bank, Pages(doc)[page_idx], page_idx,
                                 transaction_counter, inst.previous_balance)
                last == page_idx = Len(Pages(doc))
            IN /\ all_transactions' = all_transactions \o r.txns
               /\ transaction_counter' = transaction_counter + Len(r.txns)
               /\ page_idx' = page_idx + 1
               /\ inst' = [inst EXCEPT !.previous_balance = r.pb,
                                       !.transactions = IF last
                                                        THEN all_transactions \o r.txns
                                                        ELSE @]
               /\ pc' = IF last THEN "summary" ELSE "transactions"
               /\ UNCHANGED <<results, engine_results>>
    /\ UNCHANGED <<bank, doc, enhanced, encrypted, password, calls, decrypted, attempts,
                   start_prev>>
    /\ UNCHANGED other_than_parser

financial_summary_of(b, transactions, metadata) ==
    CASE b = "APGVB" -> APGVB_calculate_financial_summary(transactions, metadata)
      [] b = "CANARA" -> Canara_calculate_financial_summary(transactions)
      [] b = "UNION" -> Union_calculate_financial_summary(transactions)

\* The dictionary extract_complete_statement returns.
return_value(b, self) ==
    LET common == [total_transactions |-> Len(self.transactions),
                   processed_at |-> "now",
                   statement_metadata |-> self.statement_metadata,
                   financial_summary |-> self.financial_summary,
                   transactions |-> self.transactions]
    IN IF b = "APGVB"
       THEN common @@ [extractor_metadata |-> get_extraction_metadata(b)]
       ELSE common

\* Pass 3 and the return.
Summarize ==
    /\ pc = "summary"
    /\ LET fs == financial_summary_of(bank, inst.transactions, inst.statement_metadata)
           self == [inst EXCEPT !.financial_summary = fs]
       IN /\ inst' = self
          /\ results' = Append(results, [ok |-> TRUE, exc |-> "", reason |-> "",
                                         value |-> return_value(bank, self)])
          /\ engine_results' = Append(engine_results,
                                      engine_return(bank, enhanced, return_value(bank, self)))
    /\ pc' = "done"
    /\ UNCHANGED <<bank, doc, enhanced, encrypted, password, calls, decrypted, attempts,
                   page_idx, all_transactions, transaction_counter, start_prev>>
    /\ UNCHANGED other_than_parser

\* The registry hands the same instance out again: the next call, with the
\* same document and password, opens a new reader.
CallAgain ==
    /\ pc = "done"
    /\ calls < MaxCalls
    /\ calls' = calls + 1
    /\ pc' = FirstStep(bank)
    /\ decrypted' = FALSE
    /\ attempts' = <<>>
    /\ page_idx' = 1
    /\ all_transactions' = <<>>
    /\ transaction_counter' = 1
    /\ UNCHANGED <<bank, doc, enhanced, encrypted, password, inst, start_prev, results, engine_results>>
    /\ UNCHANGED other_than_parser

Next ==
    \/ APGVB_validate_pdf_content
    \/ Decrypt
    \/ DecryptTrimmed
    \/ ExtractMetadata
    \/ ExtractPage
    \/ Summarize
    \/ CallAgain

Spec == Init /\ [][Next]_vars

(***************************************************************************)
(* BankConfigService and extract_bank_statement_data, step by step, by     *)
(* several threads of one process.  The class takes no lock: a step is     *)
(* what runs between two points at which another thread can run.  The      *)
(* table does not change while the calls run, and the file handed to       *)
(* extract_bank_statement_data passes validate_pdf_file.                   *)
(***************************************************************************)
MaxOps == 3

RegistryOps == {"get_extractor", "reload_extractor", "clear_all_caches",
                "extract_bank_statement_data"}

EntryPoint(op) ==
    CASE op = "get_extractor" -> "check"
      [] op = "reload_extractor" -> "discard"
      [] op = "clear_all_caches" -> "clear"
      [] op = "extract_bank_statement_data" -> "engine"

\* dict[key] = value
Put(dict, key, value) ==
    [k \in DOMAIN dict \cup {key} |-> IF k = key THEN value ELSE dict[k]]

\* del dict[key]
Del(dict, key) == [k \in DOMAIN dict \ {key} |-> dict[k]]

\* No extract_complete_statement call of the single-caller model runs.
ParserIdle ==
    /\ bank = "CANARA"
    /\ doc = <<>>
    /\ encrypted = FALSE
    /\ password = PyNone
    /\ pc = "idle"
    /\ calls = 0
    /\ decrypted = FALSE
    /\ attempts = <<>>
    /\ page_idx = 1
    /\ all_transactions = <<>>
    /\ transaction_counter = 1
    /\ inst = NewInstance
    /\ start_prev = NoPreviousBalance
    /\ results = <<>>
    /\ enhanced = TRUE
    /\ engine_results = <<>>

RegistryInit ==
    /\ store \in {[b \in RegistryBanks |-> IF b = "CANARA" THEN "active" ELSE k] :
                    k \in StoredKinds}
    /\ cache = EmptyCache
    /\ cache_timestamp = PyNone
    /\ lru = EmptyCache
    /\ extractor_cache = EmptyCache
    /\ threads = [t \in Threads |-> IdleThread]
    /\ ops = 0
    /\ registry_log = {}
    /\ ParserIdle
    /\ WorkersIdle
    /\ ValidatorIdle
    /\ JobIdle

\* _is_cache_valid(): the timestamp is set and younger than CACHE_TTL.
is_cache_valid(expired) == cache_timestamp # PyNone /\ ~expired

get_bank_config_unfiltered(bank_id, expired) ==
    LET config == [bank_id |-> bank_id, kind |-> store[bank_id]]
    IN [ok |-> TRUE, config |-> config,
        cache |-> Put(cache, bank_id, config), cache_timestamp |-> "set",
        lru |-> Put(lru, bank_id, config)]

\* get_bank_config(bank_id) behind its lru_cache: what it returns or raises
\* and the caches it leaves.  `expired` tells whether CACHE_TTL seconds have
\* passed since _cache_timestamp.
get_bank_config(bank_id, expired) ==
    IF bank_id \in DOMAIN lru
    THEN [ok |-> TRUE, config |-> lru[bank_id],
          cache |-> cache, cache_timestamp |-> cache_timestamp, lru |-> lru]
    ELSE IF is_cache_valid(expired) /\ bank_id \in DOMAIN cache
    THEN [ok |-> TRUE, config |-> cache[bank_id],
          cache |-> cache, cache_timestamp |-> cache_timestamp,
          lru |-> Put(lru, bank_id, cache[bank_id])]
    ELSE IF store[bank_id] = "inactive"
    THEN [ok |-> FALSE, config |-> NoConfig,
          cache |-> cache, cache_timestamp |-> cache_timestamp, lru |-> lru]
    ELSE LET config == [bank_id |-> bank_id, kind |-> store[bank_id]]
         IN [ok |-> TRUE, config |-> config,
             cache |-> Put(cache, bank_id, config), cache_timestamp |-> "set",
             lru |-> Put(lru, bank_id, config)]

load_extractor_unchecked(config) ==
    IF config.kind = "outside_package" THEN "SecurityError" ELSE ""

\* _load_extractor_class(config) followed by extractor_class() and the
\* isinstance check: the exception raised, "" when the instance is built.
load_extractor_error(config) ==
    CASE config.kind = "outside_package" -> "SecurityError"
      [] config.kind = "foreign_class" -> "TypeError"
      [] config.kind = "abstract_class" -> "TypeError"
      [] OTHER -> ""

\* getattr(module, config['ExtractorClass']): the class the item names.
class_of(config) ==
    IF config.kind \in {"active", "inactive"}
    THEN extractor_class(config.bank_id)
    ELSE config.kind

\* isinstance(extractor_instance, BaseBankExtractor)
ConformsToContract(instance) ==
    instance.cls \in {extractor_class(b) : b \in Banks}

\* A thread starts a call.  Idle threads are alike: the one with the lowest
\* number takes the call.
Call(t) ==
    /\ threads[t].pc = "idle"
    /\ \A u \in Threads : u < t => threads[u].pc # "idle"
    /\ ops < MaxOps
    /\ \E op \in RegistryOps :
       \E b \in RegistryBanks \cup
                (IF op = "extract_bank_statement_data" THEN {PyNone} ELSE {}) :
          threads' = [threads EXCEPT ![t] =
                         [op |-> op, seq |-> ops + 1, bank_id |-> b,
                          pc |-> EntryPoint(op),
                          config |-> NoConfig, instance |-> NoInstance]]
    /\ ops' = ops + 1
    /\ UNCHANGED <<store, cache, cache_timestamp, lru, extractor_cache, registry_log>>
    /\ UNCHANGED other_than_registry

\* The call of thread t returns `instance` (ok) or raises exc.
Return(t, ok, exc, reason, instance, parsed) ==
    /\ registry_log' = registry_log \cup
           {[op |-> threads[t].op, seq |-> threads[t].seq,
             bank_id |-> threads[t].bank_id,
             ok |-> ok, exc |-> exc, reason |-> reason,
             instance |-> instance, parsed |-> parsed]}
    /\ threads' = [threads EXCEPT ![t] = IdleThread]

\* extract_bank_statement_data up to the registry lookup: the bank_id
\* check and the compatibility pre-check, whose get_bank_config call fills
\* the configuration caches and whose failure is only logged.
EngineEntry(t) ==
    /\ threads[t].pc = "engine"
    /\ IF threads[t].bank_id = PyNone
       THEN /\ Return(t, FALSE, "ValueError", "bank_id is required", NoInstance, FALSE)
            /\ UNCHANGED <<cache, cache_timestamp, lru>>
       ELSE \E expired \in BOOLEAN :
               LET r == get_bank_config(threads[t].bank_id, expired)
               IN /\ cache' = r.cache
                  /\ cache_timestamp' = r.cache_timestamp
                  /\ lru' = r.lru
                  /\ threads' = [threads EXCEPT ![t].pc = "check"]
                  /\ UNCHANGED registry_log
    /\ UNCHANGED <<store, extractor_cache, ops>>
    /\ UNCHANGED other_than_registry

\* get_extractor: `if bank_id in self._extractor_cache: return ...`.
CheckExtractorCache(t) ==
    /\ threads[t].pc = "check"
    /\ LET b == threads[t].bank_id
       IN IF b \in DOMAIN extractor_cache
          THEN IF threads[t].op = "extract_bank_statement_data"
               THEN /\ threads' = [threads EXCEPT ![t].pc = "parse",
                                                  ![t].instance = extractor_cache[b]]
                    /\ UNCHANGED registry_log
               ELSE Return(t, TRUE, "", "", extractor_cache[b], FALSE)
          ELSE /\ threads' = [threads EXCEPT ![t].pc = "config"]
               /\ UNCHANGED registry_log
    /\ UNCHANGED <<store, cache, cache_timestamp, lru, extractor_cache, ops>>
    /\ UNCHANGED other_than_registry

\* get_extractor: `config = self.get_bank_config(bank_id)`.
ResolveConfig(t) ==
    /\ threads[t].pc = "config"
    /\ \E expired \in BOOLEAN :
          LET r == get_bank_config(threads[t].bank_id, expired)
          IN IF r.ok
             THEN /\ cache' = r.cache
                  /\ cache_timestamp' = r.cache_timestamp
                  /\ lru' = r.lru
                  /\ threads' = [threads EXCEPT ![t].pc = "load",
                                                ![t].config = r.config]
                  /\ UNCHANGED registry_log
             ELSE /\ Return(t, FALSE, "ValueError", "not supported or inactive",
                            NoInstance, FALSE)
                  /\ UNCHANGED <<cache, cache_timestamp, lru>>
    /\ UNCHANGED <<store, extractor_cache, ops>>
    /\ UNCHANGED other_than_registry

\* get_extractor: the class is loaded, checked against BaseBankExtractor
\* and instantiated.
LoadExtractor(t) ==
    /\ threads[t].pc = "load"
    /\ LET exc == load_extractor_error(threads[t].config)
       IN IF exc # ""
          THEN Return(t, FALSE, exc, "extractor class rejected", NoInstance, FALSE)
          ELSE /\ threads' = [threads EXCEPT ![t].pc = "install",
                                  ![t].config = NoConfig,
                                  ![t].instance =
                                      [bank_id |-> threads[t].config.bank_id,
                                       cls |-> class_of(threads[t].config),
                                       op |-> threads[t].seq]]
               /\ UNCHANGED registry_log
    /\ UNCHANGED <<store, cache, cache_timestamp, lru, extractor_cache, ops>>
    /\ UNCHANGED other_than_registry

\* get_extractor: `self._extractor_cache[bank_id] = extractor_instance` and
\* the return.
InstallExtractor(t) ==
    /\ threads[t].pc = "install"
    /\ extractor_cache' = Put(extractor_cache, threads[t].bank_id, threads[t].instance)
    /\ IF threads[t].op = "extract_bank_statement_data"
       THEN /\ threads' = [threads EXCEPT ![t].pc = "parse"]
            /\ UNCHANGED registry_log
       ELSE Return(t, TRUE, "", "", threads[t].instance, FALSE)
    /\ UNCHANGED <<store, cache, cache_timestamp, lru, ops>>
    /\ UNCHANGED other_than_registry

\* reload_extractor up to its get_extractor call: the bank's instance is
\* deleted, get_bank_config.cache_clear(), self._cache.clear() and
\* self._cache_timestamp = None.
ReloadDiscard(t) ==
    /\ threads[t].pc = "discard"
    /\ extractor_cache' = Del(extractor_cache, threads[t].bank_id)
    /\ lru' = EmptyCache
    /\ cache' = EmptyCache
    /\ cache_timestamp' = PyNone
    /\ threads' = [threads EXCEPT ![t].pc = "check"]
    /\ UNCHANGED <<store, ops, registry_log>>
    /\ UNCHANGED other_than_registry

\* clear_all_caches()
ClearAllCaches(t) ==
    /\ threads[t].pc = "clear"
    /\ cache' = EmptyCache
    /\ extractor_cache' = EmptyCache
    /\ cache_timestamp' = PyNone
    /\ lru' = EmptyCache
    /\ Return(t, TRUE, "", "", NoInstance, FALSE)
    /\ UNCHANGED <<store, ops>>
    /\ UNCHANGED other_than_registry

\* extract_bank_statement_data after the lookup:
\* extractor.extract_complete_statement(pdf_path, password) on the instance
\* the registry handed out.
ExtractWithInstance(t) ==
    /\ threads[t].pc = "parse"
    /\ Return(t, TRUE, "", "", threads[t].instance, TRUE)
    /\ UNCHANGED <<store, cache, cache_timestamp, lru, extractor_cache, ops>>
    /\ UNCHANGED other_than_registry

RegistryNext ==
    \/ \E t \in Threads : Call(t)
    \/ \E t \in Threads : EngineEntry(t)
    \/ \E t \in Threads : CheckExtractorCache(t)
    \/ \E t \in Threads : ResolveConfig(t)
    \/ \E t \in Threads : LoadExtractor(t)
    \/ \E t \in Threads : InstallExtractor(t)
    \/ \E t \in Threads : ReloadDiscard(t)
    \/ \E t \in Threads : ClearAllCaches(t)
    \/ \E t \in Threads : ExtractWithInstance(t)

RegistrySpec == RegistryInit /\ [][RegistryNext]_vars

(***************************************************************************)
(* Two threads that got the same cached instance from get_extractor each   *)
(* run extract_complete_statement on it, with a statement of their own.    *)
(* The statements are not encrypted and pass APGVB's validation.  A step   *)
(* is a statement of extract_complete_statement or one iteration of the    *)
(* page loop.                                                              *)
(***************************************************************************)
\* The document has pages and its first page has text.
Readable(d) ==
    /\ Len(Pages(d)) >= 1
    /\ ~NoText(Pages(d)[1])
    /\ ~OnlyWhitespace(Pages(d)[1])

\* One-page statements with a single transaction line, and the scenarios.
ConcurrentDocs(b) ==
    ScenarioDocs(b) \cup
    {d \in GeneratedDocs(b) : Len(d) = 3 /\ d[1] = Hdr /\ d[2].k = "txn" /\ Readable(d)}

ConcurrentInit ==
    /\ bank \in Banks
    /\ inst = NewInstance
    /\ \E d1 \in ConcurrentDocs(bank), d2 \in ConcurrentDocs(bank) :
          workers = [t \in Threads |->
                        [NoWorker EXCEPT !.doc = IF t = 1 THEN d1 ELSE d2,
                                         !.pc = "metadata"]]
    /\ doc = <<>>
    /\ encrypted = FALSE
    /\ password = PyNone
    /\ pc = "idle"
    /\ calls = 0
    /\ decrypted = FALSE
    /\ attempts = <<>>
    /\ page_idx = 1
    /\ all_transactions = <<>>
    /\ transaction_counter = 1
    /\ start_prev = NoPreviousBalance
    /\ results = <<>>
    /\ enhanced = TRUE
    /\ engine_results = <<>>
    /\ RegistryIdle
    /\ ValidatorIdle
    /\ JobIdle

\* self.statement_metadata = self._extract_statement_metadata(pdf_reader)
WorkerMetadata(t) ==
    /\ workers[t].pc = "metadata"
    /\ inst' = [inst EXCEPT !.statement_metadata =
                                statement_metadata_of(bank, Pages(workers[t].doc))]
    /\ workers' = [workers EXCEPT ![t].pc = "transactions"]
    /\ UNCHANGED bank
    /\ UNCHANGED other_than_workers

\* One iteration of the page loop of _extract_all_transactions; after the
\* last page, self.transactions = all_transactions.
WorkerPage(t) ==
    /\ workers[t].pc = "transactions"
    /\ LET w == workers[t]
           pages == Pages(w.doc)
           r == page_result(bank, pages[w.page_idx], w.page_idx,
                            w.transaction_counter, inst.previous_balance)
           last == w.page_idx = Len(pages)
       IN /\ workers' = [workers EXCEPT
                            ![t].all_transactions = w.all_transactions \o r.txns,
                            ![t].transaction_counter = w.transaction_counter + Len(r.txns),
                            ![t].page_idx = w.page_idx + 1,
                            ![t].pc = IF last THEN "summary" ELSE "transactions"]
          /\ inst' = [inst EXCEPT !.previous_balance = r.pb,
                                  !.transactions = IF last
                                                   THEN w.all_transactions \o r.txns
                                                   ELSE @]
    /\ UNCHANGED bank
    /\ UNCHANGED other_than_workers

\* self.financial_summary = self._calculate_financial_summary() and the
\* return of the dictionary built from the instance attributes.
WorkerSummarize(t) ==
    /\ workers[t].pc = "summary"
    /\ LET fs == financial_summary_of(bank, inst.transactions, inst.statement_metadata)
           self == [inst EXCEPT !.financial_summary = fs]
       IN /\ inst' = self
          /\ workers' = [workers EXCEPT ![t].pc = "done",
                                        ![t].result = return_value(bank, self)]
    /\ UNCHANGED bank
    /\ UNCHANGED other_than_workers

ConcurrentNext ==
    \/ \E t \in Threads : WorkerMetadata(t)
    \/ \E t \in Threads : WorkerPage(t)
    \/ \E t \in Threads : WorkerSummarize(t)

ConcurrentSpec == ConcurrentInit /\ [][ConcurrentNext]_vars

\* The page loop run without interruption from page idx on.
RECURSIVE ExtractAllPages(_, _, _, _, _)
ExtractAllPages(b, pages, idx, txns, pb) ==
    IF idx > Len(pages) THEN [txns |-> txns, pb |-> pb]
    ELSE LET r == page_result(b, pages[idx], idx, Len(txns) + 1, pb)
         IN ExtractAllPages(b, pages, idx + 1, txns \o r.txns, r.pb)

\* What extract_complete_statement returns for document d when it is the
\* only call on a new instance.
RunAlone(b, d) ==
    LET metadata == statement_metadata_of(b, Pages(d))
        r == ExtractAllPages(b, Pages(d), 1, <<>>, NewInstance.previous_balance)
        self == [statement_metadata |-> metadata,
                 transactions |-> r.txns,
                 financial_summary |-> financial_summary_of(b, r.txns, metadata),
                 previous_balance |-> r.pb]
    IN return_value(b, self)

\* C15: each of two concurrent extractions for the same bank returns what
\* it returns when it runs alone.
C15_ConcurrentAsAlone ==
    \A t \in Threads :
       workers[t].pc = "done" => workers[t].result = RunAlone(bank, workers[t].doc)

(***************************************************************************)
(* PDFValidator.validate, step by step.                                    *)
(***************************************************************************)
FileSizes == {1, MAX_FILE_SIZE_MB, MAX_FILE_SIZE_MB + 1}
PageCounts == {0, 1, MAX_PAGES, MAX_PAGES + 1}
TextLengths == {0, MIN_TEXT_LENGTH - 1, MIN_TEXT_LENGTH}

\* A file that is missing, one that does not begin with %PDF, and the files
\* that do.
Files ==
    {NoFile, [NoFile EXCEPT !.exists = TRUE, !.size_mb = 1]} \cup
    [exists : {TRUE}, magic : {TRUE}, size_mb : FileSizes, parses : BOOLEAN,
     is_encrypted : BOOLEAN, page_count : PageCounts, text_length : TextLengths,
     has_images : BOOLEAN, text_raises : BOOLEAN]

ValidatorInit ==
    /\ pdf_file \in Files
    /\ validator_password \in Passwords
    /\ validator_pc = "integrity"
    /\ checks = <<>>
    /\ validation_result = NoValidationResult
    /\ ParserIdle
    /\ RegistryIdle
    /\ WorkersIdle
    /\ JobIdle

\* ValidationResult.__post_init__ raises ValueError.
post_init_raises(r) ==
    \/ ~(0 <= r.confidence_score /\ r.confidence_score <= ConfidenceOne)
    \/ r.is_valid /\ r.error_code # "VALID"
    \/ ~r.is_valid /\ r.error_code = "VALID"

\* ValidationResult(...) inside validate: the result, or, when __post_init__
\* raises, what the except clause returns.
ValidationResult(is_valid, pdf_type, error_code, confidence_score) ==
    LET r == [is_valid |-> is_valid, pdf_type |-> pdf_type,
              error_code |-> error_code, confidence_score |-> confidence_score]
    IN IF post_init_raises(r)
       THEN [is_valid |-> FALSE, pdf_type |-> "INVALID",
             error_code |-> "CORRUPTED", confidence_score |-> 0]
       ELSE r

\* _create_error_result(error_code, pdf_type, confidence_score=0.0)
create_error_result(error_code, pdf_type, confidence_score) ==
    ValidationResult(FALSE, pdf_type, error_code, confidence_score)

\* validate returns.
ValidatorReturn(check, r) ==
    /\ validation_result' = r
    /\ checks' = Append(checks, check)
    /\ validator_pc' = "done"

\* The check passed.
ValidatorGoOn(check, next) ==
    /\ checks' = Append(checks, check)
    /\ validator_pc' = next
    /\ UNCHANGED validation_result

\* Step 1: _is_valid_pdf_file (the file exists and begins with %PDF).
CheckFileIntegrity ==
    /\ validator_pc = "integrity"
    /\ IF ~(pdf_file.exists /\ pdf_file.magic)
       THEN ValidatorReturn("integrity", create_error_result("NOT_PDF", "INVALID", 0))
       ELSE ValidatorGoOn("integrity", "size")
    /\ UNCHANGED <<pdf_file, validator_password>>
    /\ UNCHANGED other_than_validator

\* Step 2: file_size_mb > MAX_FILE_SIZE_MB.
CheckFileSize ==
    /\ validator_pc = "size"
    /\ IF pdf_file.size_mb > MAX_FILE_SIZE_MB
       THEN ValidatorReturn("size", create_error_result("FILE_TOO_LARGE", "INVALID", 0))
       ELSE ValidatorGoOn("size", "open")
    /\ UNCHANGED <<pdf_file, validator_password>>
    /\ UNCHANGED other_than_validator

\* _validate_pdf_content: pypdf.PdfReader(file); a file pypdf cannot read
\* raises, and the except clause returns CORRUPTED.
OpenReader ==
    /\ validator_pc = "open"
    /\ IF ~pdf_file.parses
       THEN ValidatorReturn("open", create_error_result("CORRUPTED", "INVALID", 0))
       ELSE ValidatorGoOn("open", "encryption")
    /\ UNCHANGED <<pdf_file, validator_password>>
    /\ UNCHANGED other_than_validator

\* pdf_reader.decrypt(password) succeeds with the password as given or,
\* when trimming changes it, with the trimmed one.
validator_decrypts(pw) ==
    \/ pw = DocPassword
    \/ Strip(pw) # pw /\ Strip(pw) = DocPassword

\* _validate_pdf_content: `if pdf_reader.is_encrypted:`.
CheckEncryption ==
    /\ validator_pc = "encryption"
    /\ IF pdf_file.is_encrypted /\ ~PasswordGiven(validator_password)
       THEN ValidatorReturn("encryption",
                            create_error_result("ENCRYPTED_NO_PASSWORD", "INVALID", 0))
       ELSE IF pdf_file.is_encrypted /\ ~validator_decrypts(validator_password)
       THEN ValidatorReturn("encryption",
                            create_error_result("WRONG_PASSWORD", "INVALID", 0))
       ELSE ValidatorGoOn("encryption", "page_count")
    /\ UNCHANGED <<pdf_file, validator_password>>
    /\ UNCHANGED other_than_validator

\* _validate_pdf_content: page_count == 0 and page_count > MAX_PAGES.
CheckPageCount ==
    /\ validator_pc = "page_count"
    /\ IF pdf_file.page_count = 0
       THEN ValidatorReturn("page_count", create_error_result("EMPTY_PDF", "INVALID", 0))
       ELSE IF pdf_file.page_count > MAX_PAGES
       THEN ValidatorReturn("page_count",
                            create_error_result("TOO_MANY_PAGES", "INVALID", 0))
       ELSE ValidatorGoOn("page_count", "content")
    /\ UNCHANGED <<pdf_file, validator_password>>
    /\ UNCHANGED other_than_validator

\* _analyze_pdf_content(pdf_reader): the PDFType it returns.
analyze_pdf_content(f) ==
    IF f.text_raises THEN "INVALID"
    ELSE IF f.text_length < MIN_TEXT_LENGTH
    THEN (IF f.has_images THEN "SCANNED" ELSE "INVALID")
    ELSE IF f.has_images THEN "HYBRID"
    ELSE "TEXT_BASED"

\* _validate_pdf_content: the content analysis and the final result.
CheckContent ==
    /\ validator_pc = "content"
    /\ LET pdf_type == analyze_pdf_content(pdf_file)
       IN IF pdf_type = "SCANNED"
          THEN ValidatorReturn("content",
                               create_error_result("NO_TEXT_CONTENT", "SCANNED", 3))
          ELSE ValidatorReturn("content",
                               ValidationResult(TRUE, pdf_type, "VALID", ConfidenceOne))
    /\ UNCHANGED <<pdf_file, validator_password>>
    /\ UNCHANGED other_than_validator

ValidatorNext ==
    \/ CheckFileIntegrity
    \/ CheckFileSize
    \/ OpenReader
    \/ CheckEncryption
    \/ CheckPageCount
    \/ CheckContent

ValidatorSpec == ValidatorInit /\ [][ValidatorNext]_vars

(***************************************************************************)
(* Properties of the validator.                                            *)
(***************************************************************************)
CheckOrder == <<"integrity", "size", "open", "encryption", "page_count", "content">>

\* The error code of the first check that fails, the checks taken in the
\* documented order; a file pypdf cannot read or whose text extraction
\* raises is an unexpected failure.
FirstFailingCheck(f, pw) ==
    IF ~(f.exists /\ f.magic) THEN "NOT_PDF"
    ELSE IF f.size_mb > MAX_FILE_SIZE_MB THEN "FILE_TOO_LARGE"
    ELSE IF ~f.parses THEN "CORRUPTED"
    ELSE IF f.is_encrypted /\ ~PasswordGiven(pw) THEN "ENCRYPTED_NO_PASSWORD"
    ELSE IF f.is_encrypted /\ pw # DocPassword /\ Strip(pw) # DocPassword
    THEN "WRONG_PASSWORD"
    ELSE IF f.page_count = 0 THEN "EMPTY_PDF"
    ELSE IF f.page_count > MAX_PAGES THEN "TOO_MANY_PAGES"
    ELSE IF f.text_raises THEN "CORRUPTED"
    ELSE IF f.text_length < MIN_TEXT_LENGTH THEN "NO_TEXT_CONTENT"
    ELSE "VALID"

\* C18: validate applies its checks in the fixed order and returns the error
\* code of the first check that fails, VALID only when none fails.
C18_FirstFailingCheckReported ==
    /\ checks = SubSeq(CheckOrder, 1, Len(checks))
    /\ validator_pc = "done"
          => validation_result.error_code = FirstFailingCheck(pdf_file, validator_password)

\* C19: every result has is_valid exactly when its code is VALID and a
\* confidence between 0 and 1; a valid result has confidence 1.0 and type
\* TEXT_BASED or HYBRID.
C19_ResultInvariants ==
    validator_pc = "done"
       => /\ validation_result.is_valid <=> validation_result.error_code = "VALID"
          /\ 0 <= validation_result.confidence_score
          /\ validation_result.confidence_score <= ConfidenceOne
          /\ validation_result.is_valid
                => /\ validation_result.confidence_score = ConfidenceOne
                   /\ validation_result.pdf_type \in {"TEXT_BASED", "HYBRID"}

(***************************************************************************)
(* Properties of the registry.                                             *)
(***************************************************************************)
Resolving == {"get_extractor", "reload_extractor", "extract_bank_statement_data"}

NonConforming(b) == store[b] \in {"foreign_class", "abstract_class"}

\* C12: whatever get_extractor and reload_extractor calls ran, every
\* instance in the extractor cache and every instance handed out is a
\* BaseBankExtractor of the bank it is cached for; a call that resolves a
\* bank whose class does not satisfy the contract raises TypeError, and the
\* extractor cache holds no entry for that bank.
C12_CachedInstancesConform ==
    /\ \A b \in DOMAIN extractor_cache :
          /\ ConformsToContract(extractor_cache[b])
          /\ extractor_cache[b].bank_id = b
    /\ \A e \in registry_log :
          /\ e.ok /\ e.op \in Resolving => ConformsToContract(e.instance)
          /\ e.op \in Resolving /\ e.bank_id # PyNone /\ NonConforming(e.bank_id)
                => ~e.ok /\ e.exc = "TypeError"
    /\ \A b \in RegistryBanks : NonConforming(b) => b \notin DOMAIN extractor_cache

\* A reload of a bank whose class is not a BaseBankExtractor failed with
\* TypeError while another bank's conforming instance stays cached.
C12_Witness ==
    /\ \E e \in registry_log :
          /\ e.op = "reload_extractor"
          /\ e.bank_id = "UNION"
          /\ e.exc = "TypeError"
    /\ store["UNION"] = "foreign_class"
    /\ "CANARA" \in DOMAIN extractor_cache

\* Entry c of a cache is the same before and after the step.
EntryUnchanged(before, after, c) ==
    c \in DOMAIN before => c \in DOMAIN after /\ after[c] = before[c]

\* C13: the discarding step of reload_extractor(b) leaves, for every other
\* bank c, the cached instance and the cached configuration entries as
\* they were.
C13_ReloadLeavesOtherBanks ==
    [][\A t \in Threads :
          ReloadDiscard(t) =>
             \A c \in RegistryBanks \ {threads[t].bank_id} :
                /\ EntryUnchanged(extractor_cache, extractor_cache', c)
                /\ EntryUnchanged(cache, cache', c)
                /\ EntryUnchanged(lru, lru', c)]_vars

Unresolvable(b) == b = PyNone \/ store[b] = "inactive"

UnsupportedBankReasons == {"bank_id is required", "not supported or inactive"}

C16_NoInstallFromBeforeReload ==
    \A e \in registry_log :
       e.op = "reload_extractor" /\ e.ok /\ e.bank_id \in DOMAIN extractor_cache
          => extractor_cache[e.bank_id].op >= e.seq

(***************************************************************************)
(* Properties.                                                             *)
(***************************************************************************)
Returned(i) == i \in 1..Len(results) /\ results[i].ok
Finished == pc = "done" /\ Len(results) = calls
LastResult == results[Len(results)]

\* C1: the S.No values of the transactions a call returns, read in order,
\* are exactly 1, 2, ..., n, whatever the parser and the page layout.
C1_SerialNumbersContiguous ==
    \A i \in 1..Len(results) :
        results[i].ok =>
            \A j \in 1..Len(results[i].value.transactions) :
                results[i].value.transactions[j].S_No = j

\* C2: every transaction record a parser emits has a Debit and a Credit
\* field of which exactly one is non-empty, and its Transaction_Type names
\* the non-empty one.
ExactlyOneSide(t) ==
    /\ {"Debit", "Credit", "Transaction_Type"} \subseteq DOMAIN t
    /\ Truthy(t.Debit) # Truthy(t.Credit)
    /\ t.Transaction_Type = "Debit" <=> Truthy(t.Debit)
    /\ t.Transaction_Type = "Credit" <=> Truthy(t.Credit)

C2_ExactlyOneOfDebitCredit ==
    \A j \in 1..Len(all_transactions) : ExactlyOneSide(all_transactions[j])

\* C3: two successive calls on the same instance with the same document
\* and password return the same transactions and statement_metadata.
C3_SecondCallIdentical ==
    (Returned(1) /\ Returned(2)) =>
        /\ results[1].value.transactions = results[2].value.transactions
        /\ results[1].value.statement_metadata = results[2].value.statement_metadata

\* C4: for a non-empty transaction list the summary reconciles:
\* closing_balance - opening_balance = net_change.
C4_Reconciliation ==
    \A i \in 1..Len(results) :
        (results[i].ok /\ results[i].value.transactions # <<>>) =>
            LET fs == results[i].value.financial_summary
            IN fs.closing_balance - fs.opening_balance = fs.net_change

\* self._previous_balance as the code reads it after
\* _initialize_previous_balance.
PreviousBalanceValue(pb) == APGVB_initialize_previous_balance(pb).v

\* previousBalance when the j-th transaction of the running pass was
\* classified.
PreviousBalanceBefore(j) ==
    IF j = 1 THEN PreviousBalanceValue(start_prev)
    ELSE ToFloat(all_transactions[j - 1].Balance)

ClassifiedAs(t, type, amount) ==
    /\ t.Transaction_Type = type
    /\ IF type = "Credit"
       THEN t.Credit = FloatStr(amount) /\ t.Debit = EmptyStr
       ELSE t.Debit = FloatStr(amount) /\ t.Credit = EmptyStr

DeltaExampleClassified(transactions) ==
    /\ Len(transactions) = 4
    /\ ToFloat(transactions[1].Balance) = 1000
    /\ ClassifiedAs(transactions[2], "Credit", 500)
    /\ ClassifiedAs(transactions[3], "Debit", 300)
    /\ ClassifiedAs(transactions[4], "Credit", 600)

\* C5: the balance-delta parser classifies every transaction by comparing
\* its balance with previousBalance only (greater: Credit, smaller: Debit,
\* equal: Credit), previousBalance then becomes that balance; after a
\* balance of 1000 the balances 1500, 1200, 1800 give Credit(500),
\* Debit(300), Credit(600).
C5_BalanceDeltaClassification ==
    bank = "APGVB" =>
        /\ \A j \in 1..Len(all_transactions) :
              LET t == all_transactions[j]
                  currentBalance == ToFloat(t.Balance)
                  previousBalance == PreviousBalanceBefore(j)
              IN /\ currentBalance > previousBalance =>
                        t.Transaction_Type = "Credit" /\ Truthy(t.Credit) /\ ~Truthy(t.Debit)
                 /\ currentBalance < previousBalance =>
                        t.Transaction_Type = "Debit" /\ Truthy(t.Debit) /\ ~Truthy(t.Credit)
                 /\ currentBalance = previousBalance =>
                        t.Transaction_Type = "Credit" /\ Truthy(t.Credit) /\ ~Truthy(t.Debit)
        /\ all_transactions # <<>> =>
              inst.previous_balance =
                  [set |-> TRUE,
                   v |-> ToFloat(all_transactions[Len(all_transactions)].Balance)]
        /\ \A i \in 1..Len(results) :
              (results[i].ok /\ doc = APGVB_DeltaDoc4) =>
                  DeltaExampleClassified(results[i].value.transactions)

\* The second call on the 1000, 1500, 1200, 1800 statement has returned.
C5_Witness ==
    /\ bank = "APGVB"
    /\ doc = APGVB_DeltaDoc4
    /\ Finished
    /\ calls = 2
    /\ LastResult.ok
    /\ DeltaExampleClassified(LastResult.value.transactions)
    /\ LastResult.value.financial_summary.closing_balance = 1800

\* C6: when the transaction pass of the balance-delta parser starts,
\* previousBalance is the opening balance of the metadata (0 when the
\* metadata has none).
C6_PreviousBalanceStartsAtOpening ==
    (bank = "APGVB" /\ pc = "transactions" /\ page_idx = 1) =>
        PreviousBalanceValue(inst.previous_balance) =
            (IF "opening_balance" \in DOMAIN inst.statement_metadata
             THEN inst.statement_metadata.opening_balance ELSE 0)

\* C7: an encrypted document and its password with surrounding whitespace:
\* the password is tried as given, then trimmed, and the call succeeds.
C7_TrimmedPasswordRetry ==
    (/\ encrypted
     /\ password # DocPassword /\ Strip(password) = DocPassword
     /\ Readable(doc)
     /\ Finished) =>
        /\ attempts = <<password, Strip(password)>>
        /\ LastResult.ok

DecryptionErrors == {"encrypted but no password provided", "Failed to decrypt"}

\* C8: an encrypted document without password, or with one that is wrong
\* as given and trimmed: the call fails with a decryption error, nothing
\* was extracted and nothing is stored on the instance.
C8_DecryptionFailure ==
    (/\ encrypted
     /\ ~PasswordGiven(password) \/ (password # DocPassword /\ Strip(password) # DocPassword)
     /\ Finished) =>
        /\ ~LastResult.ok
        /\ LastResult.reason \in DecryptionErrors
        /\ LastResult.value = EmptyDict
        /\ all_transactions = <<>>
        /\ inst.transactions = <<>>
        /\ inst.statement_metadata = EmptyDict

SummaryFields ==
    {"opening_balance", "closing_balance", "total_debits", "total_credits",
     "net_change", "transaction_count", "date_range"}

ValidHeaderNoTransactions(d) ==
    /\ \E i \in 1..Len(d) : d[i].k = "hdr"
    /\ Pages(d)[1] # <<>> /\ Pages(d)[1][1].k = "hdr"
    /\ \A i \in 1..Len(d) : d[i].k # "txn"

\* C9: a document with a valid header and no transaction line: the call
\* returns, total_transactions is 0 and the financial summary has every
\* field, all zero or None.
C9_EmptyStatementSummary ==
    (~encrypted /\ ValidHeaderNoTransactions(doc) /\ Finished) =>
        /\ LastResult.ok
        /\ LastResult.value.total_transactions = 0
        /\ LET fs == LastResult.value.financial_summary
           IN /\ SummaryFields \subseteq DOMAIN fs
              /\ \A f \in SummaryFields \ {"date_range"} : fs[f] \in {0, PyNone}

MalformedDocumentErrors ==
    {"PDF has no pages", "Failed to validate PDF content",
     "Invalid or corrupted PDF file"}

NoPageText(d) == \A p \in 1..Len(Pages(d)) : NoText(Pages(d)[p])

\* C10: a document with no page, or with no text on any page: the call
\* fails with a deliberate malformed-document error.
C10_MalformedDocument ==
    (~encrypted /\ NoPageText(doc) /\ Finished) =>
        /\ ~LastResult.ok
        /\ LastResult.exc = "ValueError"
        /\ LastResult.reason \in MalformedDocumentErrors

ResultKeys ==
    {"total_transactions", "processed_at", "statement_metadata",
     "financial_summary", "transactions", "extractor_metadata"}

\* Every successful result of extract_bank_statement_data is a dictionary
\* with exactly the six top-level keys.
C11_EveryResultHasSixKeys ==
    \A i \in 1..Len(engine_results) :
        engine_results[i].ok =>
            /\ engine_results[i].format = "enhanced"
            /\ DOMAIN engine_results[i].value = ResultKeys

\* C11: every successful result of the engine in its enhanced format (the
\* default) has exactly the keys total_transactions, processed_at,
\* statement_metadata, financial_summary, transactions, extractor_metadata,
\* for every bank, and total_transactions is the length of transactions;
\* with enhanced=False the result is the bare transaction list.
C11_EnhancedResultHasSixKeys ==
    \A i \in 1..Len(engine_results) :
        engine_results[i].ok =>
            IF enhanced
            THEN /\ engine_results[i].format = "enhanced"
                 /\ DOMAIN engine_results[i].value = ResultKeys
                 /\ engine_results[i].value.total_transactions
                        = Len(engine_results[i].value.transactions)
                 /\ engine_results[i].value.transactions = results[i].value.transactions
                 /\ engine_results[i].value.extractor_metadata.bank_name
                        = results[i].value.statement_metadata.bank_name
            ELSE /\ engine_results[i].format = "legacy"
                 /\ engine_results[i].value = results[i].value.transactions

\* A Canara call in the enhanced format returned two transactions.
C11_Witness ==
    /\ bank = "CANARA"
    /\ enhanced
    /\ Finished
    /\ engine_results[Len(engine_results)].ok
    /\ engine_results[Len(engine_results)].value.total_transactions = 2


\* Lines that continue the transaction begun above them.
ContinuationKinds == {"chq", "text"}

\* Index of the last line of the run of continuation lines that begins at j
\* (j - 1 when there is none).
RECURSIVE ContinuationEnd(_, _)
ContinuationEnd(d, j) ==
    IF j <= Len(d) /\ d[j].k \in ContinuationKinds
    THEN ContinuationEnd(d, j + 1)
    ELSE j - 1

\* The page that ends at item i ends with the first line of a transaction,
\* and the next page begins with continuation lines.
SpansPages(d, i) ==
    /\ 1 < i /\ i < Len(d)
    /\ d[i].k = "pb"
    /\ d[i - 1].k = "txn"
    /\ d[i + 1].k \in ContinuationKinds

\* The same statement with the page end after the continuation lines: the
\* transaction is whole on the page it starts on.
PageBreakMoved(d, i) ==
    LET j == ContinuationEnd(d, i + 1)
    IN SubSeq(d, 1, i - 1) \o SubSeq(d, i + 1, j) \o <<PB>> \o SubSeq(d, j + 1, Len(d))

\* C17: when a transaction starts at the end of a page and continues on the
\* next one, the first call returns the records it returns for the same
\* statement with the whole transaction on the page it starts on: one
\* record with that page's number, the continuation consumed.
C17_PageSpanningReassembled ==
    \A i \in 1..Len(doc) :
       Len(results) >= 1 /\ results[1].ok /\ SpansPages(doc, i)
          => results[1].value.transactions =
                RunAlone(bank, PageBreakMoved(doc, i)).transactions


\* The statement without item i.
RemoveAt(d, i) == SubSeq(d, 1, i - 1) \o SubSeq(d, i + 1, Len(d))

\* Line i is a transaction line whose own balance text makes float() raise.
LineRaises(b, d, i) ==
    /\ b = "APGVB"
    /\ d[i].k = "txn"
    /\ APGVB_extract_balance_from_line(d[i]) # 0
    /\ APGVB_balance_raises(d[i], APGVB_extract_balance_from_line(d[i]))

\* The password, if the statement needs one, opens it.
Opens(pw) == pw = DocPassword \/ Strip(pw) = DocPassword

\* C20: in the first call on a statement that is not encrypted, a line
\* whose parsing raises and a page whose text cannot be read leave the
\* records of the rest of the statement as if the line or the page's text
\* were absent, and the call returns them; a statement that cannot be
\* decrypted yields an exception and no result.
C20_FailuresContained ==
    Len(results) >= 1 =>
       /\ \A i \in 1..Len(doc) :
             ~encrypted /\ (LineRaises(bank, doc, i) \/ doc[i].k = "unreadable")
                => /\ results[1].ok
                   /\ results[1].value.transactions =
                         RunAlone(bank, RemoveAt(doc, i)).transactions
       /\ encrypted /\ ~(PasswordGiven(password) /\ Opens(password))
             => ~results[1].ok /\ results[1].value = EmptyDict


\* The page loop of the parser of bank b over `lines`, the serial counter
\* and self._previous_balance as given: [txns, pb].
PageFrom(b, lines, page_num, counter, pb) ==
    CASE b = "APGVB" ->
            LET acc == APGVB_extract_transactions_from_page(
                           lines, 1, page_num,
                           [txns |-> <<>>, counter |-> counter, pb |-> pb])
            IN [txns |-> acc.txns, pb |-> acc.pb]
      [] b = "CANARA" ->
            [txns |-> Canara_extract_transactions_from_page(
                          lines, 1, page_num,
                          [txns |-> <<>>, counter |-> counter]).txns,
             pb |-> pb]
      [] b = "UNION" ->
            [txns |-> Union_extract_transactions_from_page(lines, 1, page_num, <<>>),
             pb |-> pb]

\* The page loop over `lines` when line k ends whatever transaction is open
\* before it and is scanned as the start of its own: the lines before k,
\* then the lines from k on.
AnchorAsBarrier(b, lines, k, page_num, counter, pb) ==
    LET r1 == PageFrom(b, SubSeq(lines, 1, k - 1), page_num, counter, pb)
        r2 == PageFrom(b, SubSeq(lines, k, Len(lines)), page_num,
                       counter + Len(r1.txns), r1.pb)
    IN [txns |-> r1.txns \o r2.txns, pb |-> r2.pb]

\* Page number of item i of document d, and its index on that page.
PageOf(d, i) == 1 + Cardinality({j \in 1..(i - 1) : d[j].k = "pb"})
IndexOnPage(d, i) ==
    LET S == {j \in 1..(i - 1) : d[j].k = "pb"}
    IN IF S = {} THEN i ELSE i - (CHOOSE j \in S : \A h \in S : h <= j)

\* The records of the first call on document d when item i (an anchor line)
\* is not consumed by the transaction before it.
RecordsWithBarrier(b, d, i) ==
    LET pages == Pages(d)
        p == PageOf(d, i)
        before == ExtractAllPages(b, SubSeq(pages, 1, p - 1), 1, <<>>,
                                  NewInstance.previous_balance)
        mid == AnchorAsBarrier(b, pages[p], IndexOnPage(d, i), p,
                               IF b = "CANARA" THEN 1 ELSE Len(before.txns) + 1,
                               before.pb)
    IN ExtractAllPages(b, pages, p + 1, before.txns \o mid.txns, mid.pb).txns

\* C21: a line that matches the transaction anchor is never consumed by the
\* transaction before it: the records of the first call are those of the
\* lines before the anchor followed by those of the lines from the anchor
\* on (its text and its amounts belong to its own transaction only, and the
\* scan does not skip it).
C21_AnchorLineNotConsumed ==
    \A i \in 1..Len(doc) :
       (/\ Len(results) >= 1 /\ results[1].ok
        /\ doc[i].k = "txn"
        /\ PageOf(doc, i) <= Len(Pages(doc)))
          => results[1].value.transactions = RecordsWithBarrier(bank, doc, i)


\* The look-ahead window of the spec: at most LookAhead lines, the anchor
\* line included.
LookAhead == 4

\* Last item of the window of the anchor at item i: it ends before the next
\* anchor and at the end of the page.
RECURSIVE WindowEnd(_, _, _)
WindowEnd(d, i, j) ==
    IF j + 1 <= Len(d) /\ j + 1 < i + LookAhead /\ d[j + 1].k \notin {"txn", "pb"}
    THEN WindowEnd(d, i, j + 1)
    ELSE j

\* Line `line` alone holds a transaction amount and a balance.
HoldsAmountAndBalance(b, line) ==
    CASE b = "APGVB" ->
            LET bi == APGVB_extract_balance_from_line(line)
            IN bi # 0 /\ \E h \in 1..(bi - 1) : line.toks[h].tag # "w"
      [] b = "CANARA" -> Len(Canara_numeric_values(line)) >= 2
      [] b = "UNION" -> FALSE

\* The candidate that starts at the anchor at item i has fewer than the
\* two numeric tokens in its window.
Deficient(b, d, i) ==
    LET w == SubSeq(d, i, WindowEnd(d, i, i))
    IN IF b = "UNION"
       THEN Len(Union_amount_matches(w, 1)) < 2
       ELSE \A h \in 1..Len(w) : ~HoldsAmountAndBalance(b, w[h])

\* The anchors of page p that are not deficient, and the records of page p.
CompleteAnchors(b, d, p) ==
    {i \in 1..Len(d) : d[i].k = "txn" /\ PageOf(d, i) = p /\ ~Deficient(b, d, i)}
RecordsOfPage(txns, p) == {j \in 1..Len(txns) : txns[j].Page_Number = p}

\* The amount of a record, whatever the layout of the parser's records.
AmountText(t) ==
    IF "Amount" \in DOMAIN t THEN t.Amount
    ELSE IF Truthy(t.Debit) THEN t.Debit ELSE t.Credit

\* C22: a candidate with fewer than a transaction amount and a balance in
\* its look-ahead window is discarded: a page yields no more records than
\* it has candidates with both tokens, no record holds the '0.00' default
\* as its amount or balance, and the serial counter stands one past the
\* records emitted.
C22_DeficientCandidateDiscarded ==
    (Len(results) >= 1 /\ results[1].ok) =>
        LET txns == results[1].value.transactions
        IN /\ \A p \in 1..Len(Pages(doc)) :
                 Cardinality(RecordsOfPage(txns, p))
                     <= Cardinality(CompleteAnchors(bank, doc, p))
           /\ \A j \in 1..Len(txns) :
                 /\ AmountText(txns[j]) # ZeroLiteral
                 /\ txns[j].Balance # ZeroLiteral
           /\ (bank = "APGVB" /\ calls = 1) =>
                 transaction_counter = Len(all_transactions) + 1


\* The balance of a record as a number, whatever the layout of the record.
BalanceValue(t) ==
    IF "Balance_Numeric" \in DOMAIN t THEN t.Balance_Numeric ELSE ToFloat(t.Balance)

\* The records whose date is the latest of the list.
LatestRecords(txns) ==
    {j \in 1..Len(txns) : \A h \in 1..Len(txns) : ~ChronoLess(txns[j].Date, txns[h].Date)}

\* C23: for a non-empty transaction list the summary's closing_balance is
\* the Balance of a transaction with the latest date, whatever the order in
\* which the transactions were extracted.
C23_ClosingBalanceOfLatest ==
    \A i \in 1..Len(results) :
        (results[i].ok /\ results[i].value.transactions # <<>>) =>
            LET txns == results[i].value.transactions
            IN \E j \in LatestRecords(txns) :
                  results[i].value.financial_summary.closing_balance
                      = BalanceValue(txns[j])


\* The debit and the credit amount of a record (0 when it has none),
\* whatever the layout of the record.
DebitAmount(t) ==
    IF "Amount" \in DOMAIN t
    THEN (IF t.Amount.tag = "(Dr)" THEN t.Amount.v ELSE 0)
    ELSE DebitValue(t)
CreditAmount(t) ==
    IF "Amount" \in DOMAIN t
    THEN (IF t.Amount.tag = "(Cr)" THEN t.Amount.v ELSE 0)
    ELSE CreditValue(t)

RECURSIVE SumOfDebitAmounts(_, _)
SumOfDebitAmounts(txns, i) ==
    IF i > Len(txns) THEN 0 ELSE DebitAmount(txns[i]) + SumOfDebitAmounts(txns, i + 1)

RECURSIVE SumOfCreditAmounts(_, _)
SumOfCreditAmounts(txns, i) ==
    IF i > Len(txns) THEN 0 ELSE CreditAmount(txns[i]) + SumOfCreditAmounts(txns, i + 1)

\* C24: for a non-empty transaction list total_debits is the sum of the
\* debit amounts, total_credits the sum of the credit amounts, net_change
\* is total_credits - total_debits on the reported values, and
\* transaction_count is the number of transactions.
C24_SummaryTotals ==
    \A i \in 1..Len(results) :
        (results[i].ok /\ results[i].value.transactions # <<>>) =>
            LET txns == results[i].value.transactions
                fs == results[i].value.financial_summary
            IN /\ fs.total_debits = SumOfDebitAmounts(txns, 1)
               /\ fs.total_credits = SumOfCreditAmounts(txns, 1)
               /\ fs.net_change = fs.total_credits - fs.total_debits
               /\ fs.transaction_count = Len(txns)


\* The earliest and the latest date of a non-empty list, by calendar order.
EarliestDate(txns) ==
    CHOOSE d \in {txns[j].Date : j \in 1..Len(txns)} :
        \A h \in 1..Len(txns) : ~ChronoLess(txns[h].Date, d)
LatestDate(txns) ==
    CHOOSE d \in {txns[j].Date : j \in 1..Len(txns)} :
        \A h \in 1..Len(txns) : ~ChronoLess(d, txns[h].Date)

\* C25: for a non-empty transaction list date_range.from_date is the
\* earliest and date_range.to_date the latest transaction date, whatever
\* the extraction order and also across months and years.
C25_DateRangeIsMinMax ==
    \A i \in 1..Len(results) :
        (results[i].ok /\ results[i].value.transactions # <<>>) =>
            LET txns == results[i].value.transactions
                fs == results[i].value.financial_summary
            IN /\ fs.date_range.from_date = EarliestDate(txns)
               /\ fs.date_range.to_date = LatestDate(txns)


\* The first year in the NextLines lines after line i of `lines` that
\* differs from from_year (NoYear when there is none).
NextLines == 3
DistinctYearAfter(lines, i, from_year) ==
    LET S == {<<j, h>> \in ((i + 1)..Min2(i + NextLines, Len(lines))) \X (1..2) :
                 /\ h <= Len(lines[j].toks)
                 /\ lines[j].toks[h].tag = "year"
                 /\ lines[j].toks[h].v # from_year}
    IN IF S = {} THEN NoYear
       ELSE LET first == CHOOSE x \in S :
                            \A y \in S : x[1] < y[1] \/ (x[1] = y[1] /\ x[2] <= y[2])
            IN lines[first[1]].toks[first[2]].v

\* C26: for a statement-period line in the split layout the year of DATE2
\* is the first four-digit year in the next three lines that differs from
\* DATE1's year, and without such a year the statement_period key is
\* absent; DATE1's own year is never used, also when DATE1 and DATE2 have
\* the same day and month.
C26_SplitPeriodYear ==
    \A r \in 1..Len(results) :
       \A i \in 1..Len(doc) :
          (bank = "UNION" /\ results[r].ok /\ doc[i].k = "period" /\ PageOf(doc, i) = 1) =>
             LET lines == Pages(doc)[1]
                 year == DistinctYearAfter(lines, i, doc[i].date[3])
                 metadata == results[r].value.statement_metadata
             IN IF year = NoYear
                THEN "statement_period" \notin DOMAIN metadata
                ELSE /\ "statement_period" \in DOMAIN metadata
                     /\ metadata.statement_period =
                           [from_date |-> doc[i].date,
                            to_date |-> <<doc[i].toks[1].v, doc[i].toks[2].v, year>>]


\* What the spec reads from a reassembled text with two tagged amounts or
\* more: amount and type from the first tagged amount, balance from the
\* last, Remarks the text before the first tagged amount.
ReferenceParse(combined, page_num) ==
    LET text == Union_line_text(combined, 1)
        T == {h \in 1..Len(text) : text[h].tag \in {"(Dr)", "(Cr)"}}
        first == CHOOSE h \in T : \A g \in T : h <= g
        last == CHOOSE h \in T : \A g \in T : g <= h
    IN [S_No |-> combined[1].sno,
        Date |-> combined[1].date,
        Transaction_ID |-> "TXNID",
        Remarks |-> Text(SubSeq(text, 1, first - 1), FALSE),
        Amount |-> TaggedStr(text[first].v, text[first].tag),
        Balance |-> TaggedStr(text[last].v, text[last].tag),
        Amount_Numeric |-> IF text[first].tag = "(Dr)" THEN -text[first].v
                           ELSE text[first].v,
        Balance_Numeric |-> IF text[last].tag = "(Dr)" THEN -text[last].v
                            ELSE text[last].v,
        Transaction_Type |-> IF text[first].tag = "(Cr)" THEN "Credit" ELSE "Debit",
        Page_Number |-> page_num]

\* The reassembled texts of a page that hold two tagged amounts or more,
\* each read as above.
RECURSIVE ReferencePage(_, _, _)
ReferencePage(lines, i, page_num) ==
    IF i > Len(lines) THEN <<>>
    ELSE LET combined == Union_combine_transaction_lines(lines, i + 1, <<lines[i]>>)
         IN (IF lines[i].k = "txn" /\ Len(Union_amount_matches(combined, 1)) >= 2
             THEN <<ReferenceParse(combined, page_num)>> ELSE <<>>)
            \o ReferencePage(lines, i + 1, page_num)

RECURSIVE ReferencePages(_, _)
ReferencePages(pages, p) ==
    IF p > Len(pages) THEN <<>>
    ELSE ReferencePage(pages[p], 1, p) \o ReferencePages(pages, p + 1)

\* C27: the explicit-marker parser reads every reassembled text with two
\* tagged amounts or more as the spec says: amount and type from the first
\* tagged amount, balance from the last, Remarks the text between the
\* identifier and the first tagged amount, whatever the blanks between an
\* amount and its tag.
C27_FirstAndLastTaggedAmount ==
    \A r \in 1..Len(results) :
        (bank = "UNION" /\ results[r].ok) =>
            results[r].value.transactions = ReferencePages(Pages(doc), 1)


(***************************************************************************)
(* handle_upload and process_message, step by step.  Each job is uploaded  *)
(* by one invocation of the upload Lambda; the message it sends is handed  *)
(* to one invocation of the processor Lambda.  The two Lambdas run         *)
(* concurrently and share the jobs table, the queue and the bucket.  A     *)
(* step is one call to a service or one statement of the handler.  The     *)
(* writes to the jobs table succeed.                                       *)
(***************************************************************************)
JobInit ==
    /\ jobs_table = [j \in Jobs |-> "absent"]
    /\ queue = {}
    /\ uploader = [j \in Jobs |-> "start"]
    /\ processor = [j \in Jobs |-> NoProcessor]
    /\ s3_results = {}
    /\ status_writes = [j \in Jobs |-> <<>>]
    /\ ParserIdle
    /\ RegistryIdle
    /\ WorkersIdle
    /\ ValidatorIdle

\* table.put_item / table.update_item setting the status of job j.
WriteStatus(j, by, status) ==
    /\ jobs_table' = [jobs_table EXCEPT ![j] = status]
    /\ status_writes' = [status_writes EXCEPT
                            ![j] = Append(@, [by |-> by, status |-> status])]

\* handle_upload: save_to_dynamodb(job_data) with status 'uploaded'.
UploadSave(j) ==
    /\ uploader[j] = "start"
    /\ WriteStatus(j, "upload", "uploaded")
    /\ uploader' = [uploader EXCEPT ![j] = "saved"]
    /\ UNCHANGED <<queue, processor, s3_results>>
    /\ UNCHANGED other_than_jobs

\* trigger_processing: the message is sent (True), or the queue is not
\* configured or send_message raised (False); with False the handler
\* returns without another write.
UploadTrigger(j) ==
    /\ uploader[j] = "saved"
    /\ \E processing_triggered \in BOOLEAN :
          IF processing_triggered
          THEN /\ queue' = queue \cup {j}
               /\ uploader' = [uploader EXCEPT ![j] = "triggered"]
          ELSE /\ uploader' = [uploader EXCEPT ![j] = "done"]
               /\ UNCHANGED queue
    /\ UNCHANGED <<jobs_table, processor, s3_results, status_writes>>
    /\ UNCHANGED other_than_jobs

\* `if processing_triggered:` table.update_item(... SET #status = 'processing').
UploadMarkProcessing(j) ==
    /\ uploader[j] = "triggered"
    /\ WriteStatus(j, "upload", "processing")
    /\ uploader' = [uploader EXCEPT ![j] = "done"]
    /\ UNCHANGED <<queue, processor, s3_results>>
    /\ UNCHANGED other_than_jobs

\* Where process_message goes on after a step inside its try blocks that
\* returned (ok) or raised: on, or to the handler that encloses the step.
after_step_unchecked(ok, next, handler) == next

after_step(ok, next, handler) == IF ok THEN next ELSE handler

\* The processor Lambda receives the message of job j; the body parses
\* and holds job_id and s3_key.
ProcReceive(j) ==
    /\ processor[j].pc = "idle"
    /\ j \in queue
    /\ queue' = queue \ {j}
    /\ processor' = [processor EXCEPT ![j].pc = "get_job"]
    /\ UNCHANGED <<jobs_table, uploader, s3_results, status_writes>>
    /\ UNCHANGED other_than_jobs

\* job_data = get_job_data(job_id): raises when the table has no item.
ProcGetJob(j) ==
    /\ processor[j].pc = "get_job"
    /\ LET ok == jobs_table[j] # "absent"
       IN processor' = [processor EXCEPT
                           ![j].pc = after_step(ok, "mark_processing", "except"),
                           ![j].raised = ~ok]
    /\ UNCHANGED <<jobs_table, queue, uploader, s3_results, status_writes>>
    /\ UNCHANGED other_than_jobs

\* update_job_status(job_id, "processing", ...)
ProcMarkProcessing(j) ==
    /\ processor[j].pc = "mark_processing"
    /\ WriteStatus(j, "processor", "processing")
    /\ processor' = [processor EXCEPT ![j].pc = "download"]
    /\ UNCHANGED <<queue, uploader, s3_results>>
    /\ UNCHANGED other_than_jobs

\* pdf_content = download_from_s3(s3_key): outside the try/finally.
ProcDownload(j) ==
    /\ processor[j].pc = "download"
    /\ \E ok \in BOOLEAN :
          processor' = [processor EXCEPT
                           ![j].pc = after_step(ok, "tempfile", "except"),
                           ![j].raised = ~ok]
    /\ UNCHANGED <<jobs_table, queue, uploader, s3_results, status_writes>>
    /\ UNCHANGED other_than_jobs

\* with tempfile.NamedTemporaryFile(suffix='.pdf', delete=False): ...
ProcTempFile(j) ==
    /\ processor[j].pc = "tempfile"
    /\ processor' = [processor EXCEPT ![j].pc = "extract", ![j].tmp_file = TRUE]
    /\ UNCHANGED <<jobs_table, queue, uploader, s3_results, status_writes>>
    /\ UNCHANGED other_than_jobs

\* extraction_result = extract_bank_statement_data(tmp_file_path, ...)
ProcExtract(j) ==
    /\ processor[j].pc = "extract"
    /\ \E ok \in BOOLEAN :
          processor' = [processor EXCEPT
                           ![j].pc = after_step(ok, "store", "finally"),
                           ![j].raised = ~ok]
    /\ UNCHANGED <<jobs_table, queue, uploader, s3_results, status_writes>>
    /\ UNCHANGED other_than_jobs

\* upload_complete_results_to_s3(results_key, extraction_result)
ProcStoreResults(j) ==
    /\ processor[j].pc = "store"
    /\ \E ok \in BOOLEAN :
          /\ processor' = [processor EXCEPT
                              ![j].pc = after_step(ok, "mark_completed", "finally"),
                              ![j].raised = @ \/ ~ok]
          /\ s3_results' = IF ok THEN s3_results \cup {j} ELSE s3_results
    /\ UNCHANGED <<jobs_table, queue, uploader, status_writes>>
    /\ UNCHANGED other_than_jobs

\* update_job_status(job_id, "completed", update_data), then the return
\* statement, which passes through the finally clause.
ProcMarkCompleted(j) ==
    /\ processor[j].pc = "mark_completed"
    /\ WriteStatus(j, "processor", "completed")
    /\ processor' = [processor EXCEPT ![j].pc = "finally"]
    /\ UNCHANGED <<queue, uploader, s3_results>>
    /\ UNCHANGED other_than_jobs

\* finally: os.unlink(tmp_file_path); then the return value is handed
\* back, or the exception goes on to the except clause.
ProcFinally(j) ==
    /\ processor[j].pc = "finally"
    /\ processor' = [processor EXCEPT
                        ![j].tmp_file = FALSE,
                        ![j].pc = IF processor[j].raised THEN "except" ELSE "returned"]
    /\ UNCHANGED <<jobs_table, queue, uploader, s3_results, status_writes>>
    /\ UNCHANGED other_than_jobs

\* except Exception: update_job_status(job_id, "failed", ...); raise
ProcExcept(j) ==
    /\ processor[j].pc = "except"
    /\ WriteStatus(j, "processor", "failed")
    /\ processor' = [processor EXCEPT ![j].pc = "raised"]
    /\ UNCHANGED <<queue, uploader, s3_results>>
    /\ UNCHANGED other_than_jobs

\* The steps of process_message once the invocation has its message.
ProcStep(j) ==
    \/ ProcGetJob(j)
    \/ ProcMarkProcessing(j)
    \/ ProcDownload(j)
    \/ ProcTempFile(j)
    \/ ProcExtract(j)
    \/ ProcStoreResults(j)
    \/ ProcMarkCompleted(j)
    \/ ProcFinally(j)
    \/ ProcExcept(j)

JobNext ==
    \/ \E j \in Jobs : UploadSave(j)
    \/ \E j \in Jobs : UploadTrigger(j)
    \/ \E j \in Jobs : UploadMarkProcessing(j)
    \/ \E j \in Jobs : ProcReceive(j)
    \/ \E j \in Jobs : ProcStep(j)

JobSpec == JobInit /\ [][JobNext]_vars

\* A Lambda invocation that has started runs on until it returns or raises.
JobLiveSpec ==
    JobInit /\ [][JobNext]_vars /\ \A j \in Jobs : WF_vars(ProcStep(j))

TerminalStatuses == {"completed", "failed"}

\* C28: once the processor has set a job's status to 'completed' or
\* 'failed', no later write by the upload handler sets it to 'processing'.
C28_StatusNeverRegresses ==
    \A j \in Jobs :
       \A a \in 1..Len(status_writes[j]) :
          \A b \in (a + 1)..Len(status_writes[j]) :
             (/\ status_writes[j][a].by = "processor"
              /\ status_writes[j][a].status \in TerminalStatuses)
                => ~(/\ status_writes[j][b].by = "upload"
                     /\ status_writes[j][b].status = "processing")


\* The status writes process_message made for job j, in order.
ProcessorWrites(j) ==
    SelectSeq(status_writes[j], LAMBDA w : w.by = "processor")

TerminalWrites(j) ==
    {a \in 1..Len(ProcessorWrites(j)) :
        ProcessorWrites(j)[a].status \in TerminalStatuses}

\* process_message has returned or raised.
ProcessorDone(j) == processor[j].pc \in {"returned", "raised"}

ProcessorProtocol(j) ==
    LET pw == ProcessorWrites(j)
    IN /\ pw # <<>> => pw[1].status = "processing"
       /\ (processor[j].tmp_file
           \/ processor[j].pc \in {"extract", "store", "mark_completed"})
             => pw # <<>>
       /\ Cardinality(TerminalWrites(j)) <= 1
       /\ (\E a \in 1..Len(pw) : pw[a].status = "completed")
             => j \in s3_results /\ ~processor[j].raised
       /\ ProcessorDone(j) =>
             /\ Cardinality(TerminalWrites(j)) = 1
             /\ pw[Len(pw)].status =
                   (IF processor[j].raised THEN "failed" ELSE "completed")
             /\ processor[j].raised <=> processor[j].pc = "raised"
             /\ ~processor[j].tmp_file

PageAccessSteps == {"metadata", "transactions", "summary"}

\* C30: for an encrypted document no step that reads the pages runs before
\* the decryption: the passes run on the decrypted reader, and a call with
\* a password ends only after pdf_reader.decrypt was called, that is, no
\* check of the content has ended it before.
C30_DecryptBeforePageAccess ==
    encrypted =>
        /\ pc \in PageAccessSteps => decrypted
        /\ (pc = "done" /\ PasswordGiven(password)) => attempts # <<>>

====
